---- MODULE Spec2Model ----
(***************************************************************************)
(* Frame-polling render scripts of BlenderRenderers.                       *)
(*                                                                         *)
(* Each script is a sequential procedure run inside the host application:  *)
(* it resolves its mesh objects, lists the frame files an external         *)
(* simulator (the producer) writes, and loops: wait-and-rescan when the    *)
(* next frame is absent, otherwise load it, overwrite the mesh vertex      *)
(* buffers and render.  The producer runs concurrently and only adds       *)
(* files.                                                                  *)
(*                                                                         *)
(* Conventions of the model                                                *)
(*   - a frame file frame_<t>.npy is identified by its timestep t; names   *)
(*     are zero padded to six digits, so sorted(glob(...)) orders them by  *)
(*     t for t < 10^6;                                                     *)
(*   - an array is a record [ndim, cols, rows]; rows is the sequence of    *)
(*     its rows (tuples of numbers when ndim = 2, numbers when ndim = 1);  *)
(*   - coordinates are integers; the float scale factor is an integer      *)
(*     factor; quaternion components are stored in units of 1/sqrt(2), so  *)
(*     that quarter and half turns have integer components and an integer  *)
(*     rotation matrix.                                                    *)
(***************************************************************************)
EXTENDS Integers, Sequences, FiniteSets, TLC

\* ------------------------------------------------------------------------
\* Bounds of the model
\* ------------------------------------------------------------------------
\* number of timesteps the producer can write (frame_0 .. frame_<MaxT-1>)
MaxT == 3
\* the sleep counter saturates here
MaxSleeps == 2
\* --stride is drawn from 1..MaxStride
MaxStride == 2
\* --numFrames is drawn from 0..MaxNumFrames
MaxNumFrames == 3
\* --startFrame is drawn from 0..MaxStart
MaxStart == 1
\* dropingBoxes: number of frame numbers the producer can write
MaxBoxFrames == 3

\* compute devices in the cycles preferences
MaxDevices == 3
\* --slowdown is drawn from 0..MaxSlowdown
MaxSlowdown == 2
\* integer arguments as argparse accepts them are drawn from -MaxNeg upwards
MaxNeg == 2
\* frames processed by a run over arbitrary integer arguments
MaxRenders == 3

\* ------------------------------------------------------------------------
\* Program constants
\* ------------------------------------------------------------------------
\* unroll/run.py skips the first 66 rows of every frame (the collider)
ColliderRows == 66

\* ------------------------------------------------------------------------
\* Generic helpers
\* ------------------------------------------------------------------------
Min(a, b) == IF a <= b THEN a ELSE b

Max(a, b) == IF a >= b THEN a ELSE b

Abs(x) == IF x < 0 THEN -x ELSE x

Range(s) == {s[i] : i \in 1..Len(s)}

\* sorted(glob.glob(pattern)): the files present, in increasing name order
Sorted(S) ==
    CHOOSE s \in [1..Cardinality(S) -> S] :
        /\ \A i \in 1..Cardinality(S) : \A j \in 1..Cardinality(S) : i < j => s[i] < s[j]

\* Python list indexing lst[i] for 0 <= i < len(lst)
At(lst, i) == lst[i + 1]

\* lst[i] of a Python list is defined for -len <= i < len
PyIndexOk(lst, i) == 0 - Len(lst) <= i /\ i < Len(lst)

\* Python list indexing lst[i]: a negative i counts from the end
PyAt(lst, i) == IF i >= 0 THEN lst[i + 1] ELSE lst[Len(lst) + i + 1]

\* Python slicing rows[start:end] for start, end >= 0 (bounds are clamped)
Slice(rows, start, end) ==
    LET lo == Min(start, Len(rows))
        hi == Min(end, Len(rows))
    IN  IF hi <= lo THEN << >> ELSE SubSeq(rows, lo + 1, hi)

\* rows[start:]
SliceFrom(rows, start) == Slice(rows, start, Len(rows))

\* numpy astype(float32) on an integer-valued number: exact up to 2^24,
\* beyond that rounded to the nearest multiple of 2 (ties to a multiple of 4)
F32(x) ==
    IF Abs(x) <= 16777216 THEN x
    ELSE LET a == Abs(x)
             r == IF a % 2 = 0 THEN a
                  ELSE IF (a + 1) % 4 = 0 THEN a + 1 ELSE a - 1
         IN  IF x < 0 THEN -r ELSE r

\* f"{n:06d}": decimal digits, zero padded on the left to width six
RECURSIVE Digits(_)
Digits(n) == IF n < 10 THEN <<n>> ELSE Append(Digits(n \div 10), n % 10)

Pad6(n) ==
    LET d == Digits(n)
    IN  IF Len(d) >= 6 THEN d ELSE [i \in 1..(6 - Len(d)) |-> 0] \o d

\* ------------------------------------------------------------------------
\* Vectors and arrays
\* ------------------------------------------------------------------------
VecScale(v, k) == [i \in 1..Len(v) |-> v[i] * k]

VecAdd(v, w) == [i \in 1..Len(v) |-> v[i] + w[i]]

VecF32(v) == [i \in 1..Len(v) |-> F32(v[i])]

\* particle_q * scale
ArrScale(arr, k) ==
    [arr EXCEPT !.rows = [i \in 1..Len(arr.rows) |->
        IF arr.ndim = 2 THEN VecScale(arr.rows[i], k) ELSE arr.rows[i] * k]]

\* arr[start:end]: slicing along the first axis keeps ndim and cols
ArrSlice(arr, start, end) == [arr EXCEPT !.rows = Slice(arr.rows, start, end)]

\* ------------------------------------------------------------------------
\* State
\* ------------------------------------------------------------------------
VARIABLES
    script,             \* which script the host application was started with
    args,               \* parsed command line / module settings
    scene,              \* host scene: object name -> [type, nverts]
    manifest,           \* initial_meshes/mesh_info.json, or NoManifest
    sim,                \* what the simulator writes: shapes of its arrays
    frameFiles,         \* timesteps t whose frame_<t>.npy is on disk
    bodyqFiles,         \* timesteps t whose body_q_<t>.npy is on disk
    compFiles,          \* dropingBoxes: frame number -> components on disk
    pc,                 \* "start", "loop", "done" or "aborted"
    err,                \* the uncaught exception that ended the run, if any
    camera,             \* bpy.context.scene.camera
    co,                 \* mesh object name -> vertex buffer (mesh.vertices co)
    npy_files,          \* last listing of frame files (sorted)
    body_q_files,       \* last listing of body_q files (sorted)
    soft_body_meshes,   \* Multi-physics mapping tables
    rigid_body_meshes,
    cloth_mesh,
    fileId,
    frame_num,          \* dropingBoxes loop counters
    rendered_count,
    renders,            \* render calls so far: the output file stems, in order
    sleeps,             \* time.sleep calls so far (saturating at MaxSleeps)
    attempts,           \* update_mesh_vertices calls of the latest iteration
    argv,               \* options given after "--" on the command line
    devices,            \* cycles preferences: the compute devices, in order
    hide,               \* object name -> [hide_render, hide_viewport]
    mode,               \* argument of the latest setup_barrel_mode call
    returned,           \* value returned by the function called, or NotReturned
    pair_idx,           \* run_slowmo_orbit.py loop counters
    sub_idx,
    output_idx

\* state that only the one-shot functions and run_slowmo_orbit.py change
other == <<argv, devices, hide, mode, returned, pair_idx, sub_idx, output_idx>>

\* what no polling loop changes
inputs == <<script, args, scene, manifest, sim, other>>

disk == <<frameFiles, bodyqFiles, compFiles>>

prog == <<pc, err, camera, co, npy_files, body_q_files, soft_body_meshes,
          rigid_body_meshes, cloth_mesh, fileId, frame_num, rendered_count,
          renders, sleeps, attempts>>

vars == <<script, args, scene, manifest, sim, frameFiles, bodyqFiles, compFiles,
          pc, err, camera, co, npy_files, body_q_files, soft_body_meshes,
          rigid_body_meshes, cloth_mesh, fileId, frame_num, rendered_count,
          renders, sleeps, attempts, argv, devices, hide, mode, returned, pair_idx,
          sub_idx, output_idx>>

\* the manifest's "cloth" key absent or null
NoCloth == [name |-> "none", has_start |-> FALSE, particle_start |-> 0, num_vertices |-> 0]

\* cloth_mesh = None
NoClothMesh == [name |-> "none", particle_start |-> 0, num_vertices |-> 0]

\* initial_meshes/mesh_info.json does not exist
NoManifest == [present |-> FALSE, soft_bodies |-> << >>, rigid_bodies |-> << >>,
               cloth |-> NoCloth]

NoErr == [type |-> "none", obj |-> "none"]

\* the function has not returned (yet)
NotReturned == "none"

\* nothing after "--"
NoArgv == << >>

\* a scene with neither the rifled barrel nor the barrel section collection
NoBarrel == [barrel |-> FALSE, section |-> [exists |-> FALSE, objects |-> {}],
             flags |-> << >>]

Timesteps == 0..(MaxT - 1)

\* ------------------------------------------------------------------------
\* Host scene
\* ------------------------------------------------------------------------
Absent == [type |-> "NONE", nverts |-> 0]

MeshOf(n) == [type |-> "MESH", nverts |-> n]

NonMesh == [type |-> "EMPTY", nverts |-> 0]

CameraObj == [type |-> "CAMERA", nverts |-> 0]

\* bpy.context.scene.objects.get(name) is not None
InScene(sc, name) == name \in DOMAIN sc /\ sc[name].type # "NONE"

\* get_mesh_obj without the type test
IsMeshAnyType(sc, name) == InScene(sc, name)

\* get_mesh_obj(name) returns (does not raise RuntimeError)
IsMesh(sc, name) == InScene(sc, name) /\ sc[name].type = "MESH"

MeshNames(sc) == {n \in DOMAIN sc : sc[n].type = "MESH"}

\* vertex buffers of the scene as saved in the .blend file
RestVertex == <<0, 0, -1>>

InitCo(sc) == [n \in MeshNames(sc) |-> [i \in 1..sc[n].nverts |-> RestVertex]]

\* ------------------------------------------------------------------------
\* Simulator output
\* ------------------------------------------------------------------------
\* shape of the array in frame_<t>.npy
FrameShape(sm, t) ==
    IF t # sm.badT THEN [ndim |-> 2, cols |-> 3, n |-> sm.rows]
    ELSE IF sm.badKind = "rows" THEN [ndim |-> 2, cols |-> 3, n |-> sm.rows - 1]
    ELSE IF sm.badKind = "cols" THEN [ndim |-> 2, cols |-> 2, n |-> sm.rows]
    ELSE [ndim |-> 1, cols |-> 0, n |-> sm.rows]

\* row r (0-based) of the particle buffer of timestep t
ParticleRow(t, r) == <<t, r, t + r>>

\* np.load(frame_<t>.npy)
FrameArray(sm, t) ==
    LET sh == FrameShape(sm, t)
    IN  [ndim |-> sh.ndim, cols |-> sh.cols,
         rows |-> [i \in 1..sh.n |->
                     IF sh.ndim = 1 THEN t + i - 1
                     ELSE SubSeq(ParticleRow(t, i - 1), 1, sh.cols)]]

\* orientations the simulator writes, as (qx, qy, qz, qw) in units of 1/sqrt(2)
PoseQuats == << <<0, 0, 1, 1>>, <<1, 0, 0, 1>>, <<0, 1, 0, 1>>,
                <<0, 0, -1, 1>>, <<1, 1, 0, 0>>, <<0, 1, 0, -1>> >>

\* row b of body_q_<t>.npy: [px, py, pz, qx, qy, qz, qw]
BodyPose(t, b) == <<t + 1, b, 0 - t>> \o PoseQuats[((t + 2 * b) % Len(PoseQuats)) + 1]

\* np.load(body_q_<t>.npy): (num_bodies, 7)
BodyQArray(sm, t) == [b \in 1..sm.numBodies |-> BodyPose(t, b - 1)]

\* np.load(<name>_vertices_local.npy): (localRows, 3)
LocalVerts(sm) ==
    [ndim |-> 2, cols |-> 3,
     rows |-> [i \in 1..sm.localRows |-> <<i, 2 * (i - 1), 3>>]]

\* ------------------------------------------------------------------------
\* update_mesh_vertices
\* ------------------------------------------------------------------------
\* update_mesh_vertices without the vertex count check
UpdateAcceptsAnyCount(n_mesh, V_np) ==
    ~(V_np.ndim # 2 \/ V_np.cols # 3)

\* the two checks of update_mesh_vertices: (N,3) shape, then N = len(mesh.vertices)
UpdateAccepts(n_mesh, V_np) ==
    /\ ~(V_np.ndim # 2 \/ V_np.cols # 3)
    /\ Len(V_np.rows) = n_mesh

\* co_flat = V_np.astype(np.float32).reshape(-1); foreach_set("co", co_flat)
UpdatedBuffer(V_np) == [i \in 1..Len(V_np.rows) |-> VecF32(V_np.rows[i])]

\* record of one update_mesh_vertices call
Attempt(u, ok) ==
    [obj |-> u.obj, kind |-> u.kind, src |-> u.src,
     ndim |-> u.arr.ndim, cols |-> u.arr.cols, n |-> Len(u.arr.rows), ok |-> ok]

\* a sequence of update_mesh_vertices calls; the first one that raises ends it
RECURSIVE ApplyUpdates(_, _, _, _)
ApplyUpdates(sc, c, ups, done) ==
    IF ups = << >> THEN [co |-> c, attempts |-> done, failed |-> FALSE, obj |-> "none"]
    ELSE LET u == Head(ups)
         IN  IF UpdateAccepts(sc[u.obj].nverts, u.arr)
             THEN ApplyUpdates(sc, [c EXCEPT ![u.obj] = UpdatedBuffer(u.arr)],
                               Tail(ups), Append(done, Attempt(u, TRUE)))
             ELSE [co |-> c, attempts |-> Append(done, Attempt(u, FALSE)),
                   failed |-> TRUE, obj |-> u.obj]

\* ------------------------------------------------------------------------
\* Rigid-body world transform (Multi-physics/run.py)
\* ------------------------------------------------------------------------
\* Quaternion((w, x, y, z)).to_matrix() for a unit quaternion whose
\* components are given in units of 1/sqrt(2): 2*a*b becomes a*b
QuatToMatrix(q) ==
    LET w == q[1]
        x == q[2]
        y == q[3]
        z == q[4]
    IN  << <<1 - (y * y + z * z), x * y - w * z,       x * z + w * y>>,
           <<x * y + w * z,       1 - (x * x + z * z), y * z - w * x>>,
           <<x * z - w * y,       y * z + w * x,       1 - (x * x + y * y)>> >>

Transpose(m) == [i \in 1..3 |-> [j \in 1..3 |-> m[j][i]]]

\* row vector times matrix: v @ m
RowTimes(v, m) == [j \in 1..3 |-> v[1] * m[1][j] + v[2] * m[2][j] + v[3] * m[3][j]]

\* RigidWorldVerts taking the pose quaternion as already being (w, x, y, z)
RigidWorldVertsWXYZ(local_verts, transform, scale) ==
    LET position     == SubSeq(transform, 1, 3)
        quat_blender == SubSeq(transform, 4, 7)
        rot_matrix   == QuatToMatrix(quat_blender)
    IN  [local_verts EXCEPT !.rows = [i \in 1..Len(local_verts.rows) |->
            VecF32(VecScale(VecAdd(RowTimes(local_verts.rows[i], Transpose(rot_matrix)),
                                   position), scale))]]

\* lines 280-295: pose -> world vertices of one rigid body
RigidWorldVerts(local_verts, transform, scale) ==
    LET position     == SubSeq(transform, 1, 3)
        quat_xyzw    == SubSeq(transform, 4, 7)
        quat_blender == <<quat_xyzw[4], quat_xyzw[1], quat_xyzw[2], quat_xyzw[3]>>
        rot_matrix   == QuatToMatrix(quat_blender)
    IN  [local_verts EXCEPT !.rows = [i \in 1..Len(local_verts.rows) |->
            VecF32(VecScale(VecAdd(RowTimes(local_verts.rows[i], Transpose(rot_matrix)),
                                   position), scale))]]

\* ------------------------------------------------------------------------
\* The producer (external simulator): adds files, never removes any, and
\* runs whether or not the script is still running
\* ------------------------------------------------------------------------
\* the run is over: the script returned or an exception ended it
Ended == pc \in {"done", "aborted"}

\* sim.inOrder: the simulator writes timestep t only after timestep t-1
ProduceFrame ==
    /\ script # "dropingBoxes"
    /\ \E t \in Timesteps \ frameFiles :
         /\ sim.inOrder => t = Cardinality(frameFiles)
         /\ frameFiles' = frameFiles \cup {t}
    /\ UNCHANGED <<inputs, bodyqFiles, compFiles, prog>>

ProduceBodyQ ==
    /\ script = "Multi-physics"
    /\ sim.writesBodyQ
    /\ \E t \in Timesteps \ bodyqFiles :
         /\ sim.inOrder => t = Cardinality(bodyqFiles)
         /\ bodyqFiles' = bodyqFiles \cup {t}
    /\ UNCHANGED <<inputs, frameFiles, compFiles, prog>>

\* ------------------------------------------------------------------------
\* Multi-physics/run.py: set-up (lines 70-236)
\* ------------------------------------------------------------------------
\* entries whose object get_mesh_obj finds; the others only print a warning
RECURSIVE MappedEntries(_, _)
MappedEntries(sc, entries) ==
    IF entries = << >> THEN << >>
    ELSE IF IsMesh(sc, Head(entries).name)
         THEN <<Head(entries)>> \o MappedEntries(sc, Tail(entries))
         ELSE MappedEntries(sc, Tail(entries))

\* lines 198-202: largest particle_start + num_vertices over soft_body_meshes
RECURSIVE AfterSoftBodies(_)
AfterSoftBodies(soft) ==
    IF soft = << >> THEN 0
    ELSE Max(Head(soft).particle_start + Head(soft).num_vertices,
             AfterSoftBodies(Tail(soft)))

\* lines 186-211
ClothMapping(sc, mf, soft) ==
    IF mf.cloth = NoCloth THEN NoClothMesh
    ELSE IF ~IsMesh(sc, mf.cloth.name) THEN NoClothMesh
    ELSE [name |-> mf.cloth.name,
          particle_start |-> IF mf.cloth.has_start THEN mf.cloth.particle_start
                             ELSE AfterSoftBodies(soft),
          num_vertices |-> mf.cloth.num_vertices]

\* no existence check of mesh_info.json
ManifestFoundAlways(mf) == TRUE

\* os.path.exists(mesh_info_path), lines 82-84
ManifestFound(mf) == mf.present

MPSetup ==
    /\ script = "Multi-physics"
    /\ pc = "start"
    /\ IF ~ManifestFound(manifest)
       THEN /\ pc' = "aborted"
            /\ err' = [type |-> "FileNotFoundError", obj |-> "mesh_info.json"]
            /\ UNCHANGED <<camera, co, npy_files, body_q_files, soft_body_meshes,
                           rigid_body_meshes, cloth_mesh, fileId>>
       ELSE LET soft  == MappedEntries(scene, manifest.soft_bodies)
                rigid == MappedEntries(scene, manifest.rigid_bodies)
            IN  IF rigid # << >> /\ sim.localRows < 0
                THEN \* np.load of <name>_vertices_local.npy raises; only
                     \* RuntimeError is caught
                     /\ pc' = "aborted"
                     /\ err' = [type |-> "FileNotFoundError", obj |-> Head(rigid).name]
                     /\ soft_body_meshes' = soft
                     /\ UNCHANGED <<camera, co, npy_files, body_q_files,
                                    rigid_body_meshes, cloth_mesh, fileId>>
                ELSE /\ soft_body_meshes' = soft
                     /\ rigid_body_meshes' = rigid
                     /\ cloth_mesh' = ClothMapping(scene, manifest, soft)
                     /\ camera' = IF InScene(scene, "Camera") THEN "Camera" ELSE camera
                     /\ npy_files' = Sorted(frameFiles)
                     /\ body_q_files' = Sorted(bodyqFiles)
                     /\ fileId' = args.startFrame
                     /\ pc' = "loop"
                     /\ UNCHANGED <<err, co>>
    /\ UNCHANGED <<inputs, disk, frame_num, rendered_count, renders, sleeps, attempts>>

\* ------------------------------------------------------------------------
\* Multi-physics/run.py: one iteration of the main loop (lines 237-309)
\* ------------------------------------------------------------------------
\* while condition false: fall through to "Done"
MPExit ==
    /\ script = "Multi-physics"
    /\ pc = "loop"
    /\ ~(fileId < args.startFrame + args.numFrames)
    /\ pc' = "done"
    /\ UNCHANGED <<inputs, disk, err, camera, co, npy_files, body_q_files,
                   soft_body_meshes, rigid_body_meshes, cloth_mesh, fileId,
                   frame_num, rendered_count, renders, sleeps, attempts>>

\* preview mode: "End of frames." break
MPEndOfFrames ==
    /\ script = "Multi-physics"
    /\ pc = "loop"
    /\ fileId < args.startFrame + args.numFrames
    /\ fileId >= Len(npy_files)
    /\ args.preview
    /\ pc' = "done"
    /\ UNCHANGED <<inputs, disk, err, camera, co, npy_files, body_q_files,
                   soft_body_meshes, rigid_body_meshes, cloth_mesh, fileId,
                   frame_num, rendered_count, renders, sleeps, attempts>>

\* MPWait without the rescan of the frame pattern
MPWaitNoRescan ==
    /\ script = "Multi-physics"
    /\ pc = "loop"
    /\ fileId < args.startFrame + args.numFrames
    /\ fileId >= Len(npy_files)
    /\ ~args.preview
    /\ sleeps' = Min(sleeps + 1, MaxSleeps)
    /\ body_q_files' = Sorted(bodyqFiles)
    /\ attempts' = << >>
    /\ UNCHANGED <<inputs, disk, pc, err, camera, co, npy_files, soft_body_meshes,
                   rigid_body_meshes, cloth_mesh, fileId, frame_num,
                   rendered_count, renders>>

\* batch mode: sleep 60 s, rescan both patterns, continue
MPWait ==
    /\ script = "Multi-physics"
    /\ pc = "loop"
    /\ fileId < args.startFrame + args.numFrames
    /\ fileId >= Len(npy_files)
    /\ ~args.preview
    /\ sleeps' = Min(sleeps + 1, MaxSleeps)
    /\ npy_files' = Sorted(frameFiles)
    /\ body_q_files' = Sorted(bodyqFiles)
    /\ attempts' = << >>
    /\ UNCHANGED <<inputs, disk, pc, err, camera, co, soft_body_meshes,
                   rigid_body_meshes, cloth_mesh, fileId, frame_num,
                   rendered_count, renders>>

\* SliceUpdate that ignores particle_start
SliceUpdateFromZero(m, kind, particle_q, t) ==
    [obj |-> m.name, kind |-> kind, src |-> t,
     arr |-> ArrSlice(particle_q, 0, m.num_vertices)]

\* lines 259-270: one update per mapped soft body, then the cloth
SliceUpdate(m, kind, particle_q, t) ==
    [obj |-> m.name, kind |-> kind, src |-> t,
     arr |-> ArrSlice(particle_q, m.particle_start, m.particle_start + m.num_vertices)]

SoftUpdates(soft, particle_q, t) ==
    [i \in 1..Len(soft) |-> SliceUpdate(soft[i], "soft", particle_q, t)]

ClothUpdates(cloth, particle_q, t) ==
    IF cloth = NoClothMesh THEN << >> ELSE <<SliceUpdate(cloth, "cloth", particle_q, t)>>

\* lines 273-296: rigid bodies whose body_idx is a row of the body_q array
RECURSIVE RigidUpdates(_, _, _, _, _)
RigidUpdates(rigid, body_q, local_verts, scale, tq) ==
    IF rigid = << >> THEN << >>
    ELSE LET rb   == Head(rigid)
             rest == RigidUpdates(Tail(rigid), body_q, local_verts, scale, tq)
         IN  IF rb.body_idx < Len(body_q)
             THEN <<[obj |-> rb.name, kind |-> "rigid", src |-> tq,
                     arr |-> RigidWorldVerts(local_verts, At(body_q, rb.body_idx), scale)]>>
                  \o rest
             ELSE rest

\* all update_mesh_vertices calls of the iteration, given the scaled particle
\* buffer of timestep t and the loaded body_q array of timestep tq (empty
\* when the rigid-body branch of line 273 is not taken)
MPUpdates(particle_q, t, body_q, tq) ==
    SoftUpdates(soft_body_meshes, particle_q, t)
    \o ClothUpdates(cloth_mesh, particle_q, t)
    \o RigidUpdates(rigid_body_meshes, body_q, LocalVerts(sim), args.scale, tq)

\* line 273
RigidBranch == fileId < Len(body_q_files) /\ Len(rigid_body_meshes) > 0

MPProcess ==
    /\ script = "Multi-physics"
    /\ pc = "loop"
    /\ fileId < args.startFrame + args.numFrames
    /\ ~(fileId >= Len(npy_files))
    /\ IF ~PyIndexOk(npy_files, fileId)
       THEN \* line 248: npy_files[fileId] with fileId < -len(npy_files)
            /\ pc' = "aborted"
            /\ err' = [type |-> "IndexError", obj |-> "npy_files"]
            /\ UNCHANGED <<co, attempts, renders, fileId>>
       ELSE IF RigidBranch /\ ~PyIndexOk(body_q_files, fileId)
       THEN \* line 274: body_q_files[fileId], the soft bodies already written
            \E t \in {PyAt(npy_files, fileId)} :
            \E particle_q \in {ArrScale(FrameArray(sim, t), args.scale)} :
            \E ups \in {MPUpdates(particle_q, t, << >>, 0)} :
            \E res \in {ApplyUpdates(scene, co, ups, << >>)} :
               /\ co' = res.co
               /\ attempts' = res.attempts
               /\ pc' = "aborted"
               /\ err' = IF res.failed THEN [type |-> "ValueError", obj |-> res.obj]
                         ELSE [type |-> "IndexError", obj |-> "body_q_files"]
               /\ UNCHANGED <<renders, fileId>>
       ELSE
       \E t \in {PyAt(npy_files, fileId)} :
       \E raw \in {FrameArray(sim, t)} :
       \E particle_q \in {ArrScale(raw, args.scale)} :
       \E tq \in {IF RigidBranch THEN PyAt(body_q_files, fileId) ELSE 0} :
       \E body_q \in {IF RigidBranch THEN BodyQArray(sim, tq) ELSE << >>} :
       \E ups \in {MPUpdates(particle_q, t, body_q, tq)} :
       \E res \in {ApplyUpdates(scene, co, ups, << >>)} :
           /\ co' = res.co
           /\ attempts' = res.attempts
           /\ IF res.failed
              THEN /\ pc' = "aborted"
                   /\ err' = [type |-> "ValueError", obj |-> res.obj]
                   /\ UNCHANGED <<renders, fileId>>
              ELSE /\ renders' = IF args.preview THEN renders
                                 ELSE Append(renders, PyAt(npy_files, fileId))
                   /\ fileId' = fileId + args.stride
                   /\ UNCHANGED <<pc, err>>
    /\ UNCHANGED <<inputs, disk, camera, npy_files, body_q_files, soft_body_meshes,
                   rigid_body_meshes, cloth_mesh, frame_num, rendered_count, sleeps>>

\* ------------------------------------------------------------------------
\* bullet/run_bullet_sim.py, unroll/run.py, Twist_release/run.py
\* (one mesh, the whole frame array is its vertex buffer)
\* ------------------------------------------------------------------------
SingleMeshScripts == {"bullet", "unroll", "Twist_release"}

\* the mesh object the script animates
TargetMesh(sc) ==
    IF sc = "unroll" THEN "initial_cloth" ELSE "initial_mesh"

\* np.load(npy_path), and for unroll np.load(npy_path)[66:]
LoadVertices(sc, sm, t) ==
    IF sc = "unroll"
    THEN ArrSlice(FrameArray(sm, t), ColliderRows, Len(FrameArray(sm, t).rows))
    ELSE FrameArray(sm, t)

\* camera lookup, get_mesh_obj, first listing, fileId = 0
SingleSetup ==
    /\ script \in SingleMeshScripts
    /\ pc = "start"
    /\ IF ~InScene(scene, "Camera")
       THEN /\ pc' = "aborted"
            /\ err' = [type |-> "KeyError", obj |-> "Camera"]
            /\ UNCHANGED <<camera, npy_files, fileId>>
       ELSE IF ~IsMesh(scene, TargetMesh(script))
       THEN /\ pc' = "aborted"
            /\ err' = [type |-> "RuntimeError", obj |-> TargetMesh(script)]
            /\ camera' = "Camera"
            /\ UNCHANGED <<npy_files, fileId>>
       ELSE /\ camera' = "Camera"
            /\ npy_files' = Sorted(frameFiles)
            /\ fileId' = 0
            /\ pc' = "loop"
            /\ UNCHANGED err
    /\ UNCHANGED <<inputs, disk, co, body_q_files, soft_body_meshes, rigid_body_meshes,
                   cloth_mesh, frame_num, rendered_count, renders, sleeps, attempts>>

SingleExit ==
    /\ script \in SingleMeshScripts
    /\ pc = "loop"
    /\ ~(fileId < args.numFrames)
    /\ pc' = "done"
    /\ UNCHANGED <<inputs, disk, err, camera, co, npy_files, body_q_files,
                   soft_body_meshes, rigid_body_meshes, cloth_mesh, fileId,
                   frame_num, rendered_count, renders, sleeps, attempts>>

\* SingleWait that also steps over the missing frame
SingleWaitSkips ==
    /\ script \in SingleMeshScripts
    /\ pc = "loop"
    /\ fileId < args.numFrames
    /\ fileId >= Len(npy_files)
    /\ sleeps' = Min(sleeps + 1, MaxSleeps)
    /\ npy_files' = Sorted(frameFiles)
    /\ attempts' = << >>
    /\ fileId' = fileId + args.stride
    /\ UNCHANGED <<inputs, disk, pc, err, camera, co, body_q_files, soft_body_meshes,
                   rigid_body_meshes, cloth_mesh, frame_num, rendered_count,
                   renders>>

SingleWait ==
    /\ script \in SingleMeshScripts
    /\ pc = "loop"
    /\ fileId < args.numFrames
    /\ fileId >= Len(npy_files)
    /\ sleeps' = Min(sleeps + 1, MaxSleeps)
    /\ npy_files' = Sorted(frameFiles)
    /\ attempts' = << >>
    /\ UNCHANGED <<inputs, disk, pc, err, camera, co, body_q_files, soft_body_meshes,
                   rigid_body_meshes, cloth_mesh, fileId, frame_num, rendered_count,
                   renders>>

SingleProcess ==
    /\ script \in SingleMeshScripts
    /\ pc = "loop"
    /\ fileId < args.numFrames
    /\ ~(fileId >= Len(npy_files))
    /\ IF ~PyIndexOk(npy_files, fileId)
       THEN \* npy_files[fileId] with fileId < -len(npy_files)
            /\ pc' = "aborted"
            /\ err' = [type |-> "IndexError", obj |-> "npy_files"]
            /\ UNCHANGED <<co, attempts, renders, fileId>>
       ELSE
       \E t \in {PyAt(npy_files, fileId)} :
       \E u \in {[obj |-> TargetMesh(script), kind |-> "mesh", src |-> t,
                  arr |-> LoadVertices(script, sim, t)]} :
       \E res \in {ApplyUpdates(scene, co, <<u>>, << >>)} :
           /\ co' = res.co
           /\ attempts' = res.attempts
           /\ IF res.failed
              THEN /\ pc' = "aborted"
                   /\ err' = [type |-> "ValueError", obj |-> res.obj]
                   /\ UNCHANGED <<renders, fileId>>
              ELSE /\ renders' = Append(renders, t)
                   /\ fileId' = fileId + args.stride
                   /\ UNCHANGED <<pc, err>>
    /\ UNCHANGED <<inputs, disk, camera, npy_files, body_q_files, soft_body_meshes,
                   rigid_body_meshes, cloth_mesh, frame_num, rendered_count, sleeps>>

\* ------------------------------------------------------------------------
\* dropingBoxes/render_sequence.py
\* ------------------------------------------------------------------------
\* mesh_components, in dictionary order (scene object names)
Components == <<"Box1", "Box2", "Box3", "Box4", "Cloth1", "Cloth2">>

ComponentSet == Range(Components)

ComponentIndex(c) == CHOOSE i \in 1..Len(Components) : Components[i] = c

\* frame numbers the producer can write
BoxFrames == 0..(MaxBoxFrames - 1)

\* shape of <component>/frame_<f>.npy
BoxShape(sm, c, f) ==
    IF ~(c = sm.badComp /\ f = sm.badT) THEN [ndim |-> 2, cols |-> 3, n |-> sm.rows]
    ELSE IF sm.badKind = "rows" THEN [ndim |-> 2, cols |-> 3, n |-> sm.rows - 1]
    ELSE IF sm.badKind = "cols" THEN [ndim |-> 2, cols |-> 2, n |-> sm.rows]
    ELSE [ndim |-> 1, cols |-> 0, n |-> sm.rows]

\* np.load(get_frame_path(folder, frame_num))
BoxArray(sm, c, f) ==
    LET sh == BoxShape(sm, c, f)
    IN  [ndim |-> sh.ndim, cols |-> sh.cols,
         rows |-> [i \in 1..sh.n |->
                     IF sh.ndim = 1 THEN f + i - 1
                     ELSE SubSeq(<<f, i - 1, ComponentIndex(c)>>, 1, sh.cols)]]

\* the simulator writes the files of a frame in two steps: the component
\* sim.lateComp on its own and the five others together, in either order
ProduceBoxFiles ==
    /\ script = "dropingBoxes"
    /\ \E f \in BoxFrames :
         \E part \in {{sim.lateComp}, ComponentSet \ {sim.lateComp}} :
            /\ part \cap compFiles[f] = {}
            /\ compFiles' = [compFiles EXCEPT ![f] = compFiles[f] \cup part]
    /\ UNCHANGED <<inputs, frameFiles, bodyqFiles, prog>>

\* frame_exists looking at the first component only
frame_existsFirstOnly(n) == n \in DOMAIN compFiles /\ Components[1] \in compFiles[n]

\* frame_exists(frame_num): os.path.exists for every component
frame_exists(n) == n \in DOMAIN compFiles /\ \A c \in ComponentSet : c \in compFiles[n]

\* first component, in dictionary order, that get_mesh_obj rejects (0 if none)
FirstNonMesh(sc) ==
    IF \A i \in 1..Len(Components) : IsMesh(sc, Components[i]) THEN 0
    ELSE CHOOSE i \in 1..Len(Components) :
            /\ ~IsMesh(sc, Components[i])
            /\ \A j \in 1..(i - 1) : IsMesh(sc, Components[j])

BoxSetup ==
    /\ script = "dropingBoxes"
    /\ pc = "start"
    /\ IF ~InScene(scene, "Camera")
       THEN /\ pc' = "aborted"
            /\ err' = [type |-> "KeyError", obj |-> "Camera"]
            /\ UNCHANGED <<camera, frame_num, rendered_count>>
       ELSE IF FirstNonMesh(scene) # 0
       THEN /\ pc' = "aborted"
            /\ err' = [type |-> "RuntimeError", obj |-> Components[FirstNonMesh(scene)]]
            /\ camera' = "Camera"
            /\ UNCHANGED <<frame_num, rendered_count>>
       ELSE /\ camera' = "Camera"
            /\ frame_num' = args.startFrame
            /\ rendered_count' = 0
            /\ pc' = "loop"
            /\ UNCHANGED err
    /\ UNCHANGED <<inputs, disk, co, npy_files, body_q_files, soft_body_meshes,
                   rigid_body_meshes, cloth_mesh, fileId, renders, sleeps, attempts>>

BoxExit ==
    /\ script = "dropingBoxes"
    /\ pc = "loop"
    /\ ~(rendered_count < args.numFrames)
    /\ pc' = "done"
    /\ UNCHANGED <<inputs, disk, err, camera, co, npy_files, body_q_files,
                   soft_body_meshes, rigid_body_meshes, cloth_mesh, fileId,
                   frame_num, rendered_count, renders, sleeps, attempts>>

\* BoxWait with a retry limit: gives up on the second wait
BoxWaitGivesUp ==
    /\ script = "dropingBoxes"
    /\ pc = "loop"
    /\ rendered_count < args.numFrames
    /\ ~frame_exists(frame_num)
    /\ sleeps' = Min(sleeps + 1, MaxSleeps)
    /\ attempts' = << >>
    /\ pc' = IF sleeps >= 1 THEN "done" ELSE pc
    /\ UNCHANGED <<inputs, disk, err, camera, co, npy_files, body_q_files,
                   soft_body_meshes, rigid_body_meshes, cloth_mesh, fileId,
                   frame_num, rendered_count, renders>>

BoxWait ==
    /\ script = "dropingBoxes"
    /\ pc = "loop"
    /\ rendered_count < args.numFrames
    /\ ~frame_exists(frame_num)
    /\ sleeps' = Min(sleeps + 1, MaxSleeps)
    /\ attempts' = << >>
    /\ UNCHANGED <<inputs, disk, pc, err, camera, co, npy_files, body_q_files,
                   soft_body_meshes, rigid_body_meshes, cloth_mesh, fileId,
                   frame_num, rendered_count, renders>>

\* frame_num += 1, the stride ignored
BoxAdvanceByOne(n, stride) == n + 1

\* frame_num += stride
BoxAdvance(n, stride) == n + stride

\* load_frame(frame_num, mesh_objs): one update per component, in order
BoxUpdates(sm, n) ==
    [i \in 1..Len(Components) |->
        [obj |-> Components[i], kind |-> "mesh", src |-> n,
         arr |-> BoxArray(sm, Components[i], n)]]

BoxProcess ==
    /\ script = "dropingBoxes"
    /\ pc = "loop"
    /\ rendered_count < args.numFrames
    /\ frame_exists(frame_num)
    /\ \E ups \in {BoxUpdates(sim, frame_num)} :
       \E res \in {ApplyUpdates(scene, co, ups, << >>)} :
           /\ co' = res.co
           /\ attempts' = res.attempts
           /\ IF res.failed
              THEN /\ pc' = "aborted"
                   /\ err' = [type |-> "ValueError", obj |-> res.obj]
                   /\ UNCHANGED <<renders, frame_num, rendered_count>>
              ELSE /\ renders' = Append(renders, Pad6(frame_num))
                   /\ frame_num' = BoxAdvance(frame_num, args.stride)
                   /\ rendered_count' = rendered_count + 1
                   /\ UNCHANGED <<pc, err>>
    /\ UNCHANGED <<inputs, disk, camera, npy_files, body_q_files, soft_body_meshes,
                   rigid_body_meshes, cloth_mesh, fileId, sleeps>>

\* ------------------------------------------------------------------------
\* Initial states: the job (script, arguments, scene, simulator output)
\* ------------------------------------------------------------------------
Strides == 1..MaxStride

NumFramesDom == 0..MaxNumFrames

StartDom == 0..MaxStart

\* --scale as an integer factor
Scales == {1, 2}

\* Twist_release/run.py has no command line: module settings
TwistStride == 1

TwistNumFrames == 1000

Soft(name, start, n) == [name |-> name, particle_start |-> start, num_vertices |-> n]

Rigid(name, idx) == [name |-> name, body_idx |-> idx]

ClothEntry(has, start, n) ==
    [name |-> "Cloth", has_start |-> has, particle_start |-> start, num_vertices |-> n]

\* mesh_info.json contents considered
Manifests ==
    { [present |-> TRUE, soft_bodies |-> <<Soft("SoftA", 0, 2)>>, rigid_bodies |-> << >>, cloth |-> NoCloth],
      [present |-> TRUE, soft_bodies |-> <<Soft("SoftA", 0, 2), Soft("SoftB", 2, 1)>>,
       rigid_bodies |-> <<Rigid("RigidA", 0)>>, cloth |-> ClothEntry(TRUE, 3, 2)],
      [present |-> TRUE, soft_bodies |-> <<Soft("SoftA", 0, 2), Soft("SoftB", 2, 1)>>,
       rigid_bodies |-> <<Rigid("RigidA", 1)>>, cloth |-> ClothEntry(FALSE, 0, 2)],
      [present |-> TRUE, soft_bodies |-> << >>, rigid_bodies |-> <<Rigid("RigidA", 0)>>, cloth |-> NoCloth] }

SimpleManifest == [present |-> TRUE, soft_bodies |-> <<Soft("SoftA", 0, 2)>>, rigid_bodies |-> << >>,
                   cloth |-> NoCloth]

FullScene ==
    [n \in {"SoftA", "SoftB", "RigidA", "Cloth", "Camera"} |->
        CASE n = "SoftA"  -> MeshOf(2)
          [] n = "SoftB"  -> MeshOf(1)
          [] n = "RigidA" -> MeshOf(2)
          [] n = "Cloth"  -> MeshOf(2)
          [] n = "Camera" -> CameraObj]

\* Multi-physics scenes considered: all objects present; an object missing;
\* an object of another type; meshes with fewer vertices than the manifest says
MPScenes ==
    { FullScene,
      [FullScene EXCEPT !["SoftB"] = Absent],
      [FullScene EXCEPT !["SoftA"] = NonMesh, !["RigidA"] = Absent],
      [FullScene EXCEPT !["SoftA"] = MeshOf(1), !["Camera"] = Absent],
      [FullScene EXCEPT !["Cloth"] = MeshOf(1)] }

GoodSim == [rows |-> 5, badT |-> 0 - 1, badKind |-> "rows", writesBodyQ |-> TRUE,
            numBodies |-> 2, localRows |-> 2, inOrder |-> FALSE, lateComp |-> "none", badComp |-> "none"]

\* simulator outputs considered for Multi-physics
MPSims ==
    { GoodSim,
      [GoodSim EXCEPT !.rows = 4],
      [GoodSim EXCEPT !.badT = 1],
      [GoodSim EXCEPT !.badT = 1, !.badKind = "cols"],
      [GoodSim EXCEPT !.badT = 0, !.badKind = "ndim"],
      [GoodSim EXCEPT !.writesBodyQ = FALSE],
      [GoodSim EXCEPT !.numBodies = 1],
      [GoodSim EXCEPT !.localRows = 0 - 1],
      [GoodSim EXCEPT !.localRows = 1] }

MPArgs(strides, nums, starts, previews, scales) ==
    { [stride |-> s, numFrames |-> n, startFrame |-> st, preview |-> p, scale |-> k] :
        s \in strides, n \in nums, st \in starts, p \in previews, k \in scales }

\* the polling loops do not use these
InitOther ==
    /\ argv = NoArgv
    /\ devices = << >>
    /\ hide = NoBarrel
    /\ mode = "none"
    /\ returned = NotReturned
    /\ pair_idx = 0
    /\ sub_idx = 0
    /\ output_idx = 0

\* nothing on disk yet, nothing executed yet
InitProg ==
    /\ frameFiles = {}
    /\ bodyqFiles = {}
    /\ pc = "start"
    /\ err = NoErr
    /\ camera = "unset"
    /\ co = InitCo(scene)
    /\ npy_files = << >>
    /\ body_q_files = << >>
    /\ soft_body_meshes = << >>
    /\ rigid_body_meshes = << >>
    /\ cloth_mesh = NoClothMesh
    /\ fileId = 0
    /\ frame_num = 0
    /\ rendered_count = 0
    /\ renders = << >>
    /\ sleeps = 0
    /\ attempts = << >>

\* variables that have the same initial value in every polling script
InitCommon ==
    /\ InitOther
    /\ InitProg

\* every argument combination on a plain job, with and without a malformed frame
InitMPArgs ==
    /\ args \in MPArgs(Strides, NumFramesDom, StartDom, BOOLEAN, {2})
    /\ manifest = SimpleManifest
    /\ scene = FullScene
    /\ sim \in {[GoodSim EXCEPT !.writesBodyQ = FALSE],
                [GoodSim EXCEPT !.writesBodyQ = FALSE, !.badT = 1, !.badKind = "cols"]}

\* every manifest, scene and simulator output on a short batch job whose
\* simulator writes its files in timestep order
InitMPData ==
    /\ args \in MPArgs({1}, {2}, {0}, {FALSE}, {2})
    /\ manifest \in Manifests
    /\ scene \in MPScenes
    /\ \E sm \in MPSims : sim = [sm EXCEPT !.inOrder = TRUE]

\* rigid bodies, frame and body_q files written in any order
InitMPRigid ==
    /\ args \in MPArgs({1}, {2}, {0}, {FALSE}, Scales)
    /\ manifest \in {mf \in Manifests : mf.rigid_bodies # << >> /\ mf.cloth = NoCloth}
    /\ scene = FullScene
    /\ sim = GoodSim

\* mesh_info.json missing
InitMPNoManifest ==
    /\ args \in MPArgs({1}, {2}, {0}, BOOLEAN, {1})
    /\ manifest = NoManifest
    /\ scene = FullScene
    /\ sim = GoodSim

InitMP ==
    /\ script = "Multi-physics"
    /\ compFiles = << >>
    /\ InitMPArgs \/ InitMPData \/ InitMPRigid \/ InitMPNoManifest
    /\ InitCommon

SingleScene(sc, target) ==
    [n \in {"initial_mesh", "initial_cloth", "Camera"} |->
        IF n = "Camera" THEN CameraObj
        ELSE IF n = TargetMesh(sc) THEN target ELSE Absent]

InitSingle ==
    /\ script \in SingleMeshScripts
    /\ compFiles = << >>
    /\ manifest = NoManifest
    /\ IF script = "Twist_release"
       THEN args = [stride |-> TwistStride, numFrames |-> TwistNumFrames,
                    startFrame |-> 0, preview |-> FALSE, scale |-> 1]
       ELSE args \in MPArgs(Strides, NumFramesDom, {0}, {FALSE}, {1})
    /\ \/ /\ scene = SingleScene(script, MeshOf(2))
          /\ \E bad \in {0 - 1, 1} : \E kind \in {"rows", "cols", "ndim"} :
               /\ bad = 0 - 1 => kind = "rows"
               /\ sim = [GoodSim EXCEPT
                           !.rows = IF script = "unroll" THEN ColliderRows + 2 ELSE 2,
                           !.badT = bad, !.badKind = kind, !.writesBodyQ = FALSE]
       \/ /\ scene \in {SingleScene(script, MeshOf(3)), SingleScene(script, Absent),
                        SingleScene(script, NonMesh),
                        [SingleScene(script, MeshOf(2)) EXCEPT !["Camera"] = Absent]}
          /\ sim = [GoodSim EXCEPT
                      !.rows = IF script = "unroll" THEN ColliderRows + 2 ELSE 2,
                      !.writesBodyQ = FALSE]
    /\ InitCommon

BoxScene ==
    [n \in ComponentSet \cup {"Camera"} |-> IF n = "Camera" THEN CameraObj ELSE MeshOf(2)]

InitBox ==
    /\ script = "dropingBoxes"
    /\ manifest = NoManifest
    /\ compFiles = [f \in BoxFrames |-> {}]
    /\ args \in MPArgs(Strides, NumFramesDom, StartDom, {FALSE}, {1})
    /\ \/ /\ scene = BoxScene
          /\ \E late \in {"Box1", "Cloth2"} :
             \E bad \in {"none", "Box1", "Cloth1"} :
             \E kind \in {"rows", "cols", "ndim"} :
               /\ bad = "none" => kind = "rows"
               /\ sim = [GoodSim EXCEPT !.rows = 2, !.writesBodyQ = FALSE,
                                        !.lateComp = late, !.badComp = bad,
                                        !.badT = 1, !.badKind = kind]
       \/ /\ scene \in {[BoxScene EXCEPT !["Box3"] = Absent],
                        [BoxScene EXCEPT !["Cloth1"] = NonMesh],
                        [BoxScene EXCEPT !["Camera"] = Absent],
                        [BoxScene EXCEPT !["Box2"] = MeshOf(3)]}
          /\ sim = [GoodSim EXCEPT !.rows = 2, !.writesBodyQ = FALSE,
                                   !.lateComp = "Box1"]
    /\ InitCommon

Init == InitMP \/ InitSingle \/ InitBox

Next ==
    \/ ProduceFrame
    \/ ProduceBodyQ
    \/ ProduceBoxFiles
    \/ MPSetup
    \/ MPExit
    \/ MPEndOfFrames
    \/ MPWait
    \/ MPProcess
    \/ SingleSetup
    \/ SingleExit
    \/ SingleWait
    \/ SingleProcess
    \/ BoxSetup
    \/ BoxExit
    \/ BoxWait
    \/ BoxProcess

Spec == Init /\ [][Next]_vars

\* ------------------------------------------------------------------------
\* The index-based loops of Multi-physics/run.py and unroll/run.py over
\* every integer the parser accepts: --stride, --numFrames and --startFrame
\* are declared with type=int and no range test, so zero and negative
\* values reach the loop
\* ------------------------------------------------------------------------
\* integers considered for --stride and --startFrame
IntDom(hi) == (0 - MaxNeg)..hi

InitInt ==
    /\ compFiles = << >>
    /\ \/ /\ script = "Multi-physics"
          /\ args \in MPArgs(IntDom(MaxStride), (0 - 1)..MaxNumFrames, IntDom(MaxStart),
                            BOOLEAN, {2})
          /\ manifest = SimpleManifest
          /\ scene = FullScene
          /\ sim = [GoodSim EXCEPT !.writesBodyQ = FALSE, !.inOrder = TRUE]
       \/ /\ script = "unroll"
          /\ args \in MPArgs(IntDom(MaxStride), (0 - 1)..MaxNumFrames, {0}, {FALSE}, {1})
          /\ manifest = NoManifest
          /\ scene = SingleScene(script, MeshOf(2))
          /\ sim = [GoodSim EXCEPT !.rows = ColliderRows + 2, !.writesBodyQ = FALSE,
                                   !.inOrder = TRUE]
    /\ InitCommon

\* MPProcess while fewer than MaxRenders images were rendered
IntMPProcess ==
    /\ Len(renders) < MaxRenders
    /\ MPProcess

\* SingleProcess while fewer than MaxRenders images were rendered
IntSingleProcess ==
    /\ Len(renders) < MaxRenders
    /\ SingleProcess

NextInt ==
    \/ ProduceFrame
    \/ MPSetup
    \/ MPExit
    \/ MPEndOfFrames
    \/ MPWait
    \/ IntMPProcess
    \/ SingleSetup
    \/ SingleExit
    \/ SingleWait
    \/ IntSingleProcess

IntSpec == InitInt /\ [][NextInt]_vars

\* ------------------------------------------------------------------------
\* Command lines: parse_args of each script (argparse), module settings of
\* Twist_release/run.py
\* ------------------------------------------------------------------------
AllScripts == {"Multi-physics", "bullet", "unroll", "Twist_release", "dropingBoxes"}

\* the six job parameters, by option name
JobOptions == {"inFolder", "outPath", "gpu", "numFrames", "stride", "startFrame"}

\* parser.add_argument calls of each script; Twist_release has no parser
OptionsAllSix(sc) == JobOptions

Options(sc) ==
    IF sc = "Multi-physics"
    THEN {"inFolder", "outPath", "gpu", "numFrames", "stride", "startFrame", "preview", "scale"}
    ELSE IF sc = "dropingBoxes"
    THEN {"inFolder", "outPath", "gpu", "numFrames", "stride", "startFrame"}
    ELSE IF sc = "bullet"
    THEN {"inFolder", "outPath", "gpu", "numFrames", "stride", "meshName"}
    ELSE IF sc = "unroll"
    THEN {"inFolder", "outPath", "gpu", "numFrames", "stride"}
    ELSE {}

\* required=True
Required(sc) == IF sc \in {"Multi-physics", "dropingBoxes", "unroll"} THEN {"inFolder"} ELSE {}

\* default= of each option (scale in units of 0.01)
Default(sc, o) ==
    IF o = "inFolder" THEN "D:/Data/DAT_Sim/bullet_out_of_barrel/fps_600000"
    ELSE IF o = "outPath" THEN "None"
    ELSE IF o = "gpu" THEN 0
    ELSE IF o = "numFrames"
         THEN (IF sc = "bullet" THEN 10000 ELSE IF sc = "dropingBoxes" THEN 800 ELSE 1000)
    ELSE IF o = "stride" THEN 1
    ELSE IF o = "startFrame" THEN 0
    ELSE IF o = "preview" THEN 0
    ELSE IF o = "scale" THEN 1
    ELSE "initial_mesh"

\* Twist_release/run.py lines 10-27: the job is written in the module
TwistSettings ==
    [o \in {"inFolder", "outPath", "stride", "numFrames"} |->
        IF o = "inFolder"
        THEN "D:/Data/DAT_Sim/cloth_twist_release/truncation_1_iter_100_20260105_123906"
        ELSE IF o = "outPath" THEN "None"
        ELSE IF o = "stride" THEN TwistStride
        ELSE TwistNumFrames]

\* parser.parse_args(argv): unrecognized or missing required options end the
\* run (argparse's error -> SystemExit), otherwise every declared option
\* holds the value given or its default
ParseArgs ==
    /\ script \in AllScripts \ {"Twist_release"}
    /\ pc = "start"
    /\ IF \E o \in Required(script) : o \notin DOMAIN argv
       THEN /\ pc' = "aborted"
            /\ err' = [type |-> "SystemExit", obj |-> "inFolder"]
            /\ UNCHANGED args
       ELSE IF \E o \in DOMAIN argv : o \notin Options(script)
       THEN /\ pc' = "aborted"
            /\ err' = [type |-> "SystemExit",
                       obj |-> CHOOSE o \in DOMAIN argv : o \notin Options(script)]
            /\ UNCHANGED args
       ELSE /\ pc' = "parsed"
            /\ args' = [o \in Options(script) |->
                          IF o \in DOMAIN argv THEN argv[o] ELSE Default(script, o)]
            /\ UNCHANGED err
    /\ UNCHANGED <<script, scene, manifest, sim, other, disk, camera, co, npy_files,
                   body_q_files, soft_body_meshes, rigid_body_meshes, cloth_mesh, fileId,
                   frame_num, rendered_count, renders, sleeps, attempts>>

\* Twist_release/run.py never looks at sys.argv
ReadSettings ==
    /\ script = "Twist_release"
    /\ pc = "start"
    /\ pc' = "parsed"
    /\ args' = TwistSettings
    /\ UNCHANGED <<script, scene, manifest, sim, other, disk, err, camera, co, npy_files,
                   body_q_files, soft_body_meshes, rigid_body_meshes, cloth_mesh, fileId,
                   frame_num, rendered_count, renders, sleeps, attempts>>

\* value given on the command line for an option
ArgValue(o, n) ==
    IF o = "inFolder" THEN "D:/in" ELSE IF o = "outPath" THEN "D:/out" ELSE n

\* a scene and simulator for the programs that do not look at them
NoJob ==
    /\ manifest = NoManifest
    /\ sim = GoodSim
    /\ compFiles = << >>

\* any subset of the six job parameters on the command line of any script
InitCli ==
    /\ script \in AllScripts
    /\ args = << >>
    /\ scene = SingleScene("bullet", MeshOf(2))
    /\ NoJob
    /\ InitProg
    /\ \E given \in SUBSET JobOptions : \E n \in {2, 3} :
         argv = [o \in given |-> ArgValue(o, n)]
    /\ devices = << >>
    /\ hide = NoBarrel
    /\ mode = "none"
    /\ returned = NotReturned
    /\ pair_idx = 0
    /\ sub_idx = 0
    /\ output_idx = 0

NextCli == ParseArgs \/ ReadSettings

CliSpec == InitCli /\ [][NextCli]_vars

\* ------------------------------------------------------------------------
\* Scripts/M02_RenderScripts.py: BWrapper.batchedRendering (lines 124-157)
\* pc: "start" -> "top" (while True) -> "files" (second test) -> "top" ...
\*     -> "after" (statements after the loop) -> "done" / "aborted"
\* npy_files holds inModelFiles, frameFiles the model files in inFolder
\* ------------------------------------------------------------------------
\* lines 125-144: camera, listing, s.fileId = 0
BWSetup ==
    /\ script = "BWrapper"
    /\ pc = "start"
    /\ IF ~InScene(scene, "Camera")
       THEN /\ pc' = "aborted"
            /\ err' = [type |-> "KeyError", obj |-> "Camera"]
            /\ UNCHANGED <<camera, npy_files, fileId>>
       ELSE /\ camera' = "Camera"
            /\ npy_files' = Sorted(frameFiles)
            /\ fileId' = 0
            /\ pc' = "top"
            /\ UNCHANGED err
    /\ UNCHANGED <<inputs, disk, co, body_q_files, soft_body_meshes, rigid_body_meshes,
                   cloth_mesh, frame_num, rendered_count, renders, sleeps, attempts>>

\* lines 145-147: if s.fileId >= numFrames: break
BWCheckCount ==
    /\ script = "BWrapper"
    /\ pc = "top"
    /\ pc' = IF fileId >= args.numFrames THEN "after" ELSE "files"
    /\ UNCHANGED <<inputs, disk, err, camera, co, npy_files, body_q_files,
                   soft_body_meshes, rigid_body_meshes, cloth_mesh, fileId, frame_num,
                   rendered_count, renders, sleeps, attempts>>

\* lines 148-155: files exhausted -> sleep, rescan, continue or break;
\* otherwise the loop body is over and nothing has changed
BWCheckFiles ==
    /\ script = "BWrapper"
    /\ pc = "files"
    /\ IF fileId >= Len(npy_files)
       THEN IF args.waitForNewFrames
            THEN /\ sleeps' = Min(sleeps + 1, MaxSleeps)
                 /\ npy_files' = Sorted(frameFiles)
                 /\ pc' = "top"
            ELSE /\ pc' = "after"
                 /\ UNCHANGED <<sleeps, npy_files>>
       ELSE /\ pc' = "top"
            /\ UNCHANGED <<sleeps, npy_files>>
    /\ UNCHANGED <<inputs, disk, err, camera, co, body_q_files, soft_body_meshes,
                   rigid_body_meshes, cloth_mesh, fileId, frame_num, rendered_count,
                   renders, attempts>>

\* lines 156-157, after the loop: s.fileId += s.renderStride;
\* file = inModelFiles[s.fileId] (IndexError outside -len..len-1)
BWAfter ==
    /\ script = "BWrapper"
    /\ pc = "after"
    /\ fileId' = fileId + args.renderStride
    /\ IF fileId' >= Len(npy_files) \/ fileId' < 0 - Len(npy_files)
       THEN /\ pc' = "aborted"
            /\ err' = [type |-> "IndexError", obj |-> "inModelFiles"]
       ELSE /\ pc' = "done"
            /\ UNCHANGED err
    /\ UNCHANGED <<inputs, disk, camera, co, npy_files, body_q_files, soft_body_meshes,
                   rigid_body_meshes, cloth_mesh, frame_num, rendered_count, renders,
                   sleeps, attempts>>

BWStep == BWSetup \/ BWCheckCount \/ BWCheckFiles \/ BWAfter

\* any numFrames, stride and wait flag; the folder fills while the method runs
InitBW ==
    /\ script = "BWrapper"
    /\ args \in { [numFrames |-> n, renderStride |-> st, waitForNewFrames |-> w] :
                    n \in NumFramesDom, st \in Strides, w \in BOOLEAN }
    /\ scene \in {SingleScene("bullet", MeshOf(2)),
                  [SingleScene("bullet", MeshOf(2)) EXCEPT !["Camera"] = Absent]}
    /\ NoJob
    /\ InitProg
    /\ InitOther

NextBW == ProduceFrame \/ BWStep

\* the method always takes its next step
BWSpec == InitBW /\ [][NextBW]_vars /\ WF_vars(BWStep)

\* ------------------------------------------------------------------------
\* setup_optix(gpu_index) (Multi-physics/run.py lines 47-68, the same in
\* run_bullet_sim.py, unroll/run.py, render_sequence.py, run_slowmo_orbit.py)
\* ------------------------------------------------------------------------
\* positions in prefs.devices of the devices of type OPTIX, in order
OptixPositions(devs) ==
    LET P == {i \in 1..Len(devs) : devs[i].type = "OPTIX"}
    IN  IF P = {} THEN << >> ELSE Sorted(P)

\* for device in prefs.devices: device.use = False
AllDisabled(devs) == [i \in 1..Len(devs) |-> [devs[i] EXCEPT !.use = FALSE]]

\* gpu_devices[gpu_index].use = True or the fallback to gpu_devices[0];
\* a negative index counts from the end of the list, as Python lists do
SetupOptix ==
    /\ script = "setup_optix"
    /\ pc = "start"
    /\ LET gpu_index   == args.gpu
           off         == AllDisabled(devices)
           gpu_devices == OptixPositions(devices)
           n           == Len(gpu_devices)
       IN  IF gpu_index < n
           THEN IF gpu_index >= 0
                THEN /\ devices' = [off EXCEPT ![gpu_devices[gpu_index + 1]].use = TRUE]
                     /\ pc' = "done"
                     /\ UNCHANGED err
                ELSE IF gpu_index >= 0 - n
                THEN /\ devices' = [off EXCEPT ![gpu_devices[n + gpu_index + 1]].use = TRUE]
                     /\ pc' = "done"
                     /\ UNCHANGED err
                ELSE /\ devices' = off
                     /\ pc' = "aborted"
                     /\ err' = [type |-> "IndexError", obj |-> "gpu_devices"]
           ELSE /\ devices' = IF n > 0 THEN [off EXCEPT ![gpu_devices[1]].use = TRUE]
                              ELSE off
                /\ pc' = "done"
                /\ UNCHANGED err
    /\ UNCHANGED <<script, args, scene, manifest, sim, argv, hide, mode, returned, pair_idx,
                   sub_idx, output_idx, disk, camera, co, npy_files, body_q_files,
                   soft_body_meshes, rigid_body_meshes, cloth_mesh, fileId, frame_num,
                   rendered_count, renders, sleeps, attempts>>

DeviceTypes == {"OPTIX", "CUDA", "CPU"}

\* every device list of up to MaxDevices devices and every --gpu value around it
InitOptix ==
    /\ script = "setup_optix"
    /\ args \in {[gpu |-> g] : g \in (0 - MaxDevices - 1)..(MaxDevices + 1)}
    /\ \E n \in 0..MaxDevices :
         devices \in [1..n -> [type : DeviceTypes, use : BOOLEAN]]
    /\ scene = SingleScene("bullet", MeshOf(2))
    /\ NoJob
    /\ InitProg
    /\ argv = NoArgv
    /\ hide = NoBarrel
    /\ mode = "none"
    /\ returned = NotReturned
    /\ pair_idx = 0
    /\ sub_idx = 0
    /\ output_idx = 0

OptixSpec == InitOptix /\ [][SetupOptix]_vars

\* ------------------------------------------------------------------------
\* bullet/load_frame.py: update_mesh_vertices, setup_barrel_mode, load_frame
\* ------------------------------------------------------------------------
\* MESH_NAME, line 26
MESH_NAME == "initial_mesh"

\* objects that can be linked to the collection "barrel side section"
SectionNames == {"barrel_side_a", "barrel_side_b", "rifled_barrel"}

\* hide_render and hide_viewport set to the same value
Hidden(b) == [hide_render |-> b, hide_viewport |-> b]

\* setup_barrel_mode that sets hide_render only
BarrelFlagsRenderOnly(h, m) ==
    IF m \notin {"transparent", "crosssection"} THEN h.flags
    ELSE LET f1 == IF h.barrel
                   THEN [h.flags EXCEPT !["rifled_barrel"].hide_render = (m = "crosssection")]
                   ELSE h.flags
         IN  IF h.section.exists
             THEN [n \in DOMAIN f1 |->
                     IF n \in h.section.objects
                     THEN [f1[n] EXCEPT !.hide_render = (m = "transparent")]
                     ELSE f1[n]]
             ELSE f1

\* lines 55-73: the barrel first, then every object of the section
BarrelFlags(h, m) ==
    IF m \notin {"transparent", "crosssection"} THEN h.flags
    ELSE LET f1 == IF h.barrel
                   THEN [h.flags EXCEPT !["rifled_barrel"] = Hidden(m = "crosssection")]
                   ELSE h.flags
         IN  IF h.section.exists
             THEN [n \in DOMAIN f1 |->
                     IF n \in h.section.objects THEN Hidden(m = "transparent") ELSE f1[n]]
             ELSE f1

\* setup_barrel_mode(m), lines 50-73
SetupBarrelMode ==
    /\ script = "load_frame"
    /\ pc \in {"start", "done"}
    /\ \E m \in {"transparent", "crosssection", "wireframe"} :
         /\ mode' = m
         /\ hide' = [hide EXCEPT !.flags = BarrelFlags(hide, m)]
    /\ UNCHANGED <<script, args, scene, manifest, sim, argv, devices, returned, pair_idx,
                   sub_idx, output_idx, disk, prog>>

\* load_frame.py update_mesh_vertices without its vertex count test
LFCountMatchesAlways(n_mesh, V_np) == TRUE

\* line 39: len(mesh.vertices) != V_np.shape[0]
LFCountMatches(n_mesh, V_np) == Len(V_np.rows) = n_mesh

\* number of floats of V_np.reshape(-1)
FlatLen(V_np) == IF V_np.ndim = 1 THEN Len(V_np.rows) ELSE Len(V_np.rows) * V_np.cols

\* load_frame(n, data_path, MESH_NAME), lines 76-98 and 36-47
LoadFrame ==
    /\ script = "load_frame"
    /\ pc = "start"
    /\ \E n \in Timesteps :
       \E V \in {FrameArray(sim, n)} :
       \E u \in {[obj |-> MESH_NAME, kind |-> "mesh", src |-> n, arr |-> V]} :
         /\ frame_num' = n
         /\ IF n \notin frameFiles \/ ~InScene(scene, MESH_NAME)
            THEN /\ returned' = "False"
                 /\ pc' = "done"
                 /\ UNCHANGED <<co, err, attempts>>
            ELSE IF scene[MESH_NAME].type # "MESH"
            THEN /\ pc' = "aborted"
                 /\ err' = [type |-> "AttributeError", obj |-> MESH_NAME]
                 /\ UNCHANGED <<co, returned, attempts>>
            ELSE IF ~LFCountMatches(scene[MESH_NAME].nverts, V)
            THEN /\ returned' = "False"
                 /\ pc' = "done"
                 /\ attempts' = <<Attempt(u, FALSE)>>
                 /\ UNCHANGED <<co, err>>
            ELSE IF FlatLen(V) # 3 * scene[MESH_NAME].nverts
            THEN /\ pc' = "aborted"
                 /\ err' = [type |-> "RuntimeError", obj |-> MESH_NAME]
                 /\ attempts' = <<Attempt(u, FALSE)>>
                 /\ UNCHANGED <<co, returned>>
            ELSE /\ co' = [co EXCEPT ![MESH_NAME] = UpdatedBuffer(V)]
                 /\ attempts' = <<Attempt(u, TRUE)>>
                 /\ returned' = "True"
                 /\ pc' = "done"
                 /\ UNCHANGED err
    /\ UNCHANGED <<script, args, scene, manifest, sim, argv, devices, hide, mode, pair_idx,
                   sub_idx, output_idx, disk, camera, npy_files, body_q_files,
                   soft_body_meshes, rigid_body_meshes, cloth_mesh, fileId,
                   rendered_count, renders, sleeps>>

\* visibility flags an object can have in the .blend file
FlagSet == {Hidden(FALSE), Hidden(TRUE), [hide_render |-> TRUE, hide_viewport |-> FALSE]}

\* scenes with and without the barrel, with and without the collection, the
\* collection empty, with one or two objects, or containing the barrel itself
BarrelScenes ==
    { [barrel |-> b, section |-> [exists |-> e, objects |-> S], flags |-> f] :
        b \in BOOLEAN, e \in BOOLEAN,
        S \in {{}, {"barrel_side_a"}, {"barrel_side_a", "barrel_side_b"},
               {"barrel_side_a", "rifled_barrel"}},
        f \in UNION {[D -> FlagSet] : D \in SUBSET SectionNames} }

BarrelSceneOk(h) ==
    /\ DOMAIN h.flags = (IF h.barrel THEN {"rifled_barrel"} ELSE {}) \cup h.section.objects
    /\ ~h.section.exists => h.section.objects = {}
    /\ "rifled_barrel" \in h.section.objects => h.barrel

InitLoadFrame ==
    /\ script = "load_frame"
    /\ args = << >>
    /\ manifest = NoManifest
    /\ compFiles = << >>
    /\ \/ /\ hide \in {h \in BarrelScenes : BarrelSceneOk(h)}
          /\ scene = SingleScene("bullet", MeshOf(2))
          /\ sim = [GoodSim EXCEPT !.rows = 2, !.writesBodyQ = FALSE]
       \/ /\ hide = [barrel |-> TRUE,
                     section |-> [exists |-> TRUE, objects |-> {"barrel_side_a"}],
                     flags |-> [n \in {"rifled_barrel", "barrel_side_a"} |-> Hidden(FALSE)]]
          /\ scene \in {SingleScene("bullet", MeshOf(2)), SingleScene("bullet", MeshOf(3)),
                        SingleScene("bullet", Absent), SingleScene("bullet", NonMesh)}
          /\ \E bad \in {0 - 1, 1} : \E kind \in {"rows", "cols", "ndim"} :
               /\ bad = 0 - 1 => kind = "rows"
               /\ sim = [GoodSim EXCEPT !.rows = 2, !.writesBodyQ = FALSE,
                                        !.badT = bad, !.badKind = kind]
    /\ InitProg
    /\ argv = NoArgv
    /\ devices = << >>
    /\ mode = "none"
    /\ returned = NotReturned
    /\ pair_idx = 0
    /\ sub_idx = 0
    /\ output_idx = 0

NextLoadFrame == ProduceFrame \/ SetupBarrelMode \/ LoadFrame

LoadFrameSpec == InitLoadFrame /\ [][NextLoadFrame]_vars

\* ------------------------------------------------------------------------
\* cloth_drop/run_slowmo_orbit.py
\* renders holds one record per image: the output index as written in the
\* file name, the two source indices and sub_idx; mesh coordinates written
\* by this script are held in units of 1/slowdown
\* ------------------------------------------------------------------------
\* mesh_names for --numLayers 2 and the default --meshPrefix, line 109
LayerNames == << "initial_mesh_000_cloth_main_cloth_layer0",
                 "initial_mesh_001_cloth_main_cloth_layer1" >>

\* list(range(a, b, step)) for step >= 1
PyRange(a, b, step) ==
    [i \in 1..(IF b > a THEN (b - a + step - 1) \div step ELSE 0) |-> a + (i - 1) * step]

\* end_frame used as given
ClampedEndUnclamped(a, files) == a.endFrame

\* lines 217-219: an end_frame at or past the number of files becomes the last index
ClampedEnd(a, files) == IF a.endFrame >= Len(files) THEN Len(files) - 1 ELSE a.endFrame

\* line 222
SourceIndices(a, files) == PyRange(a.startFrame, ClampedEnd(a, files) + 1, a.stride)

source_indices == SourceIndices(args, npy_files)

\* line 223
num_source_pairs == Len(source_indices) - 1

\* line 224
total_output_frames == num_source_pairs * args.slowdown

\* for sub_idx in range(slowdown + 1): the blend factor 1 rendered as well
InnerLoopOverInclusive(sub, slowdown) == ~(sub + 1 < slowdown + 1)

\* line 241, for sub_idx in range(slowdown): sub was the last value
InnerLoopOver(sub, slowdown) == ~(sub + 1 < slowdown)

\* lerp_vertices(v0, v1, sub/slowdown) times slowdown; numpy raises ValueError
\* when the shapes cannot be broadcast, which for the arrays written by the
\* simulator of this model is whenever they differ
LerpFails(v0, v1) ==
    v0.ndim # v1.ndim \/ v0.cols # v1.cols \/ Len(v0.rows) # Len(v1.rows)

Lerp(v0, v1, sub, slowdown) ==
    [v0 EXCEPT !.rows = [i \in 1..Len(v0.rows) |->
        IF v0.ndim = 1 THEN (slowdown - sub) * v0.rows[i] + sub * v1.rows[i]
        ELSE [k \in 1..v0.cols |->
                (slowdown - sub) * v0.rows[i][k] + sub * v1.rows[i][k]]]]

\* lines 249-253: consecutive slices of V_interp, one per layer mesh
RECURSIVE LayerUpdates(_, _, _, _, _)
LayerUpdates(sc, names, V_interp, start_v, src) ==
    IF names = << >> THEN << >>
    ELSE LET end_v == start_v + sc[Head(names)].nverts
         IN  << [obj |-> Head(names), kind |-> "layer", src |-> src,
                 arr |-> ArrSlice(V_interp, start_v, end_v)] >>
             \o LayerUpdates(sc, Tail(names), V_interp, end_v, src)

\* first layer, in order, that get_mesh_obj rejects (0 if none)
FirstBadLayer(sc) ==
    IF \A i \in 1..Len(LayerNames) : IsMesh(sc, LayerNames[i]) THEN 0
    ELSE CHOOSE i \in 1..Len(LayerNames) :
            /\ ~IsMesh(sc, LayerNames[i])
            /\ \A j \in 1..(i - 1) : IsMesh(sc, LayerNames[j])

\* lines 190-231: camera, meshes, listing, source indices, pre-load
SlowSetup ==
    /\ script = "slowmo"
    /\ pc = "start"
    /\ IF ~InScene(scene, "Camera")
       THEN /\ pc' = "aborted"
            /\ err' = [type |-> "KeyError", obj |-> "Camera"]
            /\ UNCHANGED <<camera, npy_files>>
       ELSE /\ camera' = "Camera"
            /\ IF FirstBadLayer(scene) # 0
               THEN /\ pc' = "aborted"
                    /\ err' = [type |-> "RuntimeError",
                               obj |-> LayerNames[FirstBadLayer(scene)]]
                    /\ UNCHANGED npy_files
               ELSE /\ npy_files' = Sorted(frameFiles)
                    /\ IF \E k \in 1..Len(SourceIndices(args, npy_files')) :
                            ~PyIndexOk(npy_files', SourceIndices(args, npy_files')[k])
                       THEN /\ pc' = "aborted"
                            /\ err' = [type |-> "IndexError", obj |-> "npy_files"]
                       ELSE /\ pc' = "loop"
                            /\ UNCHANGED err
    /\ pair_idx' = 0
    /\ sub_idx' = 0
    /\ output_idx' = 0
    /\ UNCHANGED <<script, args, scene, manifest, sim, argv, devices, hide, mode, returned,
                   disk, co, body_q_files, soft_body_meshes, rigid_body_meshes, cloth_mesh,
                   fileId, frame_num, rendered_count, renders, sleeps, attempts>>

\* one pass of the inner loop (lines 241-266); with slowdown <= 0 the inner
\* loop is empty and the outer loop moves to the next pair
SlowRender ==
    /\ script = "slowmo"
    /\ pc = "loop"
    /\ pair_idx < num_source_pairs
    /\ IF args.slowdown <= 0
       THEN /\ pair_idx' = pair_idx + 1
            /\ UNCHANGED <<sub_idx, output_idx, co, attempts, renders, pc, err>>
       ELSE \E src_idx_a \in {source_indices[pair_idx + 1]} :
            \E src_idx_b \in {source_indices[pair_idx + 2]} :
            \E frame_a \in {FrameArray(sim, PyAt(npy_files, src_idx_a))} :
            \E frame_b \in {FrameArray(sim, PyAt(npy_files, src_idx_b))} :
              IF LerpFails(frame_a, frame_b)
              THEN /\ pc' = "aborted"
                   /\ err' = [type |-> "ValueError", obj |-> "lerp_vertices"]
                   /\ attempts' = << >>
                   /\ UNCHANGED <<pair_idx, sub_idx, output_idx, co, renders>>
              ELSE \E V_interp \in {Lerp(frame_a, frame_b, sub_idx, args.slowdown)} :
                   \E ups \in {LayerUpdates(scene, LayerNames, V_interp, 0, src_idx_a)} :
                   \E res \in {ApplyUpdates(scene, co, ups, << >>)} :
                     /\ co' = res.co
                     /\ attempts' = res.attempts
                     /\ IF res.failed
                        THEN /\ pc' = "aborted"
                             /\ err' = [type |-> "ValueError", obj |-> res.obj]
                             /\ UNCHANGED <<pair_idx, sub_idx, output_idx, renders>>
                        ELSE IF total_output_frames = 0
                        THEN \* line 256: output_idx / total_output_frames
                             /\ pc' = "aborted"
                             /\ err' = [type |-> "ZeroDivisionError", obj |-> "progress"]
                             /\ UNCHANGED <<pair_idx, sub_idx, output_idx, renders>>
                        ELSE /\ renders' = Append(renders,
                                    [name |-> Pad6(output_idx), a |-> src_idx_a,
                                     b |-> src_idx_b, sub |-> sub_idx])
                             /\ output_idx' = output_idx + 1
                             /\ sub_idx' = IF InnerLoopOver(sub_idx, args.slowdown)
                                           THEN 0 ELSE sub_idx + 1
                             /\ pair_idx' = IF InnerLoopOver(sub_idx, args.slowdown)
                                            THEN pair_idx + 1 ELSE pair_idx
                             /\ UNCHANGED <<pc, err>>
    /\ UNCHANGED <<script, args, scene, manifest, sim, argv, devices, hide, mode, returned,
                   disk, camera, npy_files, body_q_files, soft_body_meshes,
                   rigid_body_meshes, cloth_mesh, fileId, frame_num, rendered_count,
                   sleeps>>

\* the outer loop is exhausted: "Done! Rendered ..."
SlowExit ==
    /\ script = "slowmo"
    /\ pc = "loop"
    /\ ~(pair_idx < num_source_pairs)
    /\ pc' = "done"
    /\ UNCHANGED <<inputs, disk, err, camera, co, npy_files, body_q_files,
                   soft_body_meshes, rigid_body_meshes, cloth_mesh, fileId, frame_num,
                   rendered_count, renders, sleeps, attempts>>

SlowScene(m0, m1) ==
    [n \in Range(LayerNames) \cup {"Camera"} |->
        IF n = "Camera" THEN CameraObj ELSE IF n = LayerNames[1] THEN m0 ELSE m1]

\* the simulator of the cloth drop: four particles per frame, written in order
SlowSim == [GoodSim EXCEPT !.rows = 4, !.writesBodyQ = FALSE, !.inOrder = TRUE]

SlowArgs(starts, ends, strides, slowdowns) ==
    { [startFrame |-> st, endFrame |-> e, stride |-> s, slowdown |-> k] :
        st \in starts, e \in ends, s \in strides, k \in slowdowns }

InitSlow ==
    /\ script = "slowmo"
    /\ manifest = NoManifest
    /\ compFiles = << >>
    /\ \/ /\ args \in SlowArgs(StartDom, (0 - 1)..(MaxT + 1), Strides, 0..MaxSlowdown)
          /\ scene = SlowScene(MeshOf(2), MeshOf(2))
          /\ sim = SlowSim
       \/ /\ args \in SlowArgs({0}, {MaxT}, {1}, {2})
          /\ \/ /\ scene \in {SlowScene(MeshOf(2), MeshOf(3)), SlowScene(MeshOf(2), Absent),
                              SlowScene(NonMesh, MeshOf(2)),
                              [SlowScene(MeshOf(2), MeshOf(2)) EXCEPT !["Camera"] = Absent]}
                /\ sim = SlowSim
             \/ /\ scene = SlowScene(MeshOf(2), MeshOf(2))
                /\ \E kind \in {"rows", "cols", "ndim"} :
                     sim = [SlowSim EXCEPT !.badT = 2, !.badKind = kind]
    /\ InitProg
    /\ InitOther

NextSlow == ProduceFrame \/ SlowSetup \/ SlowRender \/ SlowExit

SlowSpec == InitSlow /\ [][NextSlow]_vars

\* Multi-physics/run.py on its own, the script always taking its next step
MPStep == MPSetup \/ MPExit \/ MPEndOfFrames \/ MPWait \/ MPProcess

\* jobs whose simulator writes frame files only
InitLive ==
    /\ script = "Multi-physics"
    /\ compFiles = << >>
    /\ InitMPArgs
    /\ InitCommon

NextLive == ProduceFrame \/ MPStep

LiveSpec == InitLive /\ [][NextLive]_vars /\ WF_vars(MPStep)

\* ------------------------------------------------------------------------
\* Properties
\* ------------------------------------------------------------------------
MPBatch == script = "Multi-physics" /\ ~args.preview

MPPreview == script = "Multi-physics" /\ args.preview

\* the while condition of the Multi-physics loop
MPInRange == fileId < args.startFrame + args.numFrames

\* preview mode never sleeps, and where fileId has reached the target or the
\* number of listed files the only step the loop takes is the one that ends it
C1PreviewStops ==
    /\ [][MPPreview => sleeps' = 0]_vars
    /\ [][(MPPreview /\ pc = "loop" /\ (~MPInRange \/ fileId >= Len(npy_files))
           /\ prog' # prog) => pc' = "done"]_vars
    /\ (MPPreview /\ pc = "loop" /\ (~MPInRange \/ fileId >= Len(npy_files)))
          ~> (pc = "done")

\* enough frame files for the whole job are on disk
MPEnoughFiles == Cardinality(frameFiles) >= args.startFrame + args.numFrames

\* C1 as stated: preview mode stops without sleeping; in batch mode, once
\* startFrame+numFrames frame files are available the loop reaches "Done"
C1_AsStated ==
    /\ C1PreviewStops
    /\ (MPBatch /\ pc = "loop" /\ MPEnoughFiles) ~> (pc = "done")

\* C1 amended: preview mode stops without sleeping; in batch mode, once
\* startFrame+numFrames frame files are available the loop reaches "Done"
\* unless a mesh update raises ValueError, which ends the run instead
C1_Termination ==
    /\ C1PreviewStops
    /\ (MPBatch /\ pc = "loop" /\ MPEnoughFiles)
          ~> (pc = "done" \/ (pc = "aborted" /\ err.type = "ValueError"))

\* a batch run that had to wait for the producer and then finished
C1_Witness ==
    /\ MPBatch
    /\ pc = "done"
    /\ sleeps > 0
    /\ Len(renders) >= 2

\* the scripts that pick the next frame by its index in the sorted listing
IndexScripts == {"Multi-physics"} \cup SingleMeshScripts

Batch == ~args.preview

\* the while condition of an index-based loop
IdxInRange ==
    IF script = "Multi-physics" THEN MPInRange ELSE fileId < args.numFrames

\* C2 as stated: an index-based loop that terminates in batch mode has made
\* exactly numFrames render calls
C2_AsStated ==
    (script \in IndexScripts /\ Batch /\ pc = "done") => Len(renders) = args.numFrames

\* C3: when the dropingBoxes loop has terminated, rendered_count = numFrames
\* and the images written are frame_<startFrame + k*stride>.png for
\* k = 0 .. numFrames-1, in that order, each once
C3_BoxSequence ==
    (script = "dropingBoxes" /\ pc = "done") =>
        /\ rendered_count = args.numFrames
        /\ Len(renders) = args.numFrames
        /\ \A k \in 0..(args.numFrames - 1) :
             renders[k + 1] = Pad6(args.startFrame + k * args.stride)
        /\ \A i \in 1..Len(renders) : \A j \in 1..Len(renders) :
             i # j => renders[i] # renders[j]

\* a finished dropingBoxes job of two frames with a stride of two
C3_Witness ==
    /\ script = "dropingBoxes"
    /\ pc = "done"
    /\ args.stride = 2
    /\ args.numFrames = 2
    /\ Len(renders) = 2

\* an iteration of an index-based loop that finds npy_files[fileId] not listed
AbsentIteration ==
    /\ script \in IndexScripts
    /\ pc = "loop"
    /\ IdxInRange
    /\ fileId >= Len(npy_files)

\* what a sleep-and-rescan iteration does, and nothing else
SleepsAndRescans ==
    /\ sleeps' = Min(sleeps + 1, MaxSleeps)
    /\ npy_files' = Sorted(frameFiles)
    /\ pc' = "loop"
    /\ fileId' = fileId
    /\ co' = co
    /\ renders' = renders

\* C4 as stated: an iteration that finds the next frame absent sleeps and
\* rescans, leaving fileId, the meshes and the renders alone; a sleep happens
\* only in such an iteration
C4_AsStated ==
    [][/\ (AbsentIteration /\ prog' # prog) => SleepsAndRescans
       /\ (script \in IndexScripts /\ sleeps' # sleeps) => AbsentIteration]_vars

\* C4 amended: in batch mode an iteration that finds the next frame absent
\* sleeps and rescans, leaving fileId, the meshes and the renders alone, and a
\* sleep happens only in such an iteration; in Multi-physics preview mode the
\* iteration ends the loop instead, also without touching fileId, meshes or
\* renders, and never sleeps
C4_AbsentIteration ==
    [][/\ (AbsentIteration /\ Batch /\ prog' # prog) => SleepsAndRescans
       /\ (AbsentIteration /\ ~Batch /\ prog' # prog) =>
             /\ pc' = "done"
             /\ sleeps' = sleeps
             /\ fileId' = fileId
             /\ co' = co
             /\ renders' = renders
       /\ (script \in IndexScripts /\ sleeps' # sleeps) => (AbsentIteration /\ Batch)]_vars

\* a single-mesh loop that rendered a frame and then slept for the next one
C4_Witness ==
    /\ script \in SingleMeshScripts
    /\ pc = "loop"
    /\ sleeps >= 1
    /\ renders # << >>
    /\ fileId >= Len(npy_files)

\* the frame the loop needs next is not on disk
NextFrameAbsent ==
    /\ pc = "loop"
    /\ IF script = "dropingBoxes"
       THEN rendered_count < args.numFrames /\ ~frame_exists(frame_num)
       ELSE IdxInRange /\ fileId >= Cardinality(frameFiles)

\* C5: in batch mode, while the next frame is absent the loop can always take
\* one more sleep-and-rescan cycle (however many it has taken), and no step
\* ends the loop, raises, advances the frame position or counts a render
C5_UnboundedWait ==
    /\ [][(Batch /\ NextFrameAbsent) =>
            /\ pc' = "loop"
            /\ err' = err
            /\ renders' = renders
            /\ fileId' = fileId
            /\ frame_num' = frame_num
            /\ rendered_count' = rendered_count
            /\ co' = co]_vars
    /\ [](Batch /\ NextFrameAbsent =>
            /\ ENABLED (MPWait \/ SingleWait \/ BoxWait)
            /\ ~ENABLED (MPExit \/ MPEndOfFrames \/ MPProcess \/ SingleExit
                         \/ SingleProcess \/ BoxExit \/ BoxProcess))

\* dropingBoxes has rendered a frame and is in at least its MaxSleeps-th wait
\* for the next one
C5_Witness ==
    /\ script = "dropingBoxes"
    /\ pc = "loop"
    /\ sleeps = MaxSleeps
    /\ rendered_count >= 1
    /\ rendered_count < args.numFrames
    /\ ~frame_exists(frame_num)

\* the array of an update_mesh_vertices call is not (N,3) with N the vertex
\* count of the target mesh
BadArray(a) == a.ndim # 2 \/ a.cols # 3 \/ a.n # scene[a.obj].nverts

\* C6: update_mesh_vertices rejects exactly the arrays that are not (N,3) or
\* whose row count differs from the mesh's vertex count; the call that
\* rejects raises ValueError, leaves that mesh's vertex buffer as it was and
\* ends the run: no render for that frame, and none afterwards
C6_Rejects ==
    /\ [](\A i \in 1..Len(attempts) :
            /\ BadArray(attempts[i]) <=> ~attempts[i].ok
            /\ ~attempts[i].ok =>
                 /\ i = Len(attempts)
                 /\ pc = "aborted"
                 /\ err = [type |-> "ValueError", obj |-> attempts[i].obj])
    /\ [](\A m \in DOMAIN co : Len(co[m]) = scene[m].nverts)
    /\ [][(pc # "aborted" /\ pc' = "aborted" /\ err'.type = "ValueError") =>
            /\ attempts' # << >>
            /\ BadArray(attempts'[Len(attempts')])
            /\ co'[err'.obj] = co[err'.obj]
            /\ renders' = renders]_vars
    /\ [][pc = "aborted" => (pc' = "aborted" /\ co' = co /\ renders' = renders)]_vars

\* Multi-physics: in one frame an earlier mesh was updated, then the update
\* of another mesh raised, after at least one frame had been rendered
C6_Witness ==
    /\ script = "Multi-physics"
    /\ pc = "aborted"
    /\ err.type = "ValueError"
    /\ Len(attempts) >= 2
    /\ attempts[1].ok
    /\ renders # << >>
    /\ co[err.obj] = InitCo(scene)[err.obj]

\* object names the job tells the script to animate
NamedObjects ==
    IF script = "Multi-physics"
    THEN {manifest.soft_bodies[i].name : i \in 1..Len(manifest.soft_bodies)}
         \cup {manifest.rigid_bodies[i].name : i \in 1..Len(manifest.rigid_bodies)}
         \cup (IF manifest.cloth = NoCloth THEN {} ELSE {manifest.cloth.name})
    ELSE IF script \in SingleMeshScripts THEN {TargetMesh(script)}
    ELSE ComponentSet

\* the object is missing from the scene or is not of type MESH
NotAMesh(n) == n \notin DOMAIN scene \/ scene[n].type # "MESH"

\* objects the mapping tables of Multi-physics hold
MappedNames ==
    {soft_body_meshes[i].name : i \in 1..Len(soft_body_meshes)}
    \cup {rigid_body_meshes[i].name : i \in 1..Len(rigid_body_meshes)}
    \cup (IF cloth_mesh = NoClothMesh THEN {} ELSE {cloth_mesh.name})

\* C7 as stated: in every script a named mesh object that is missing or not
\* a MESH aborts the run, and no frame is rendered
C7_AsStated ==
    (\E n \in NamedObjects : NotAMesh(n)) => (pc \in {"start", "aborted"} /\ renders = << >>)

\* C7 amended: in bullet/run_bullet_sim.py, unroll/run.py, Twist_release/run.py
\* and dropingBoxes/render_sequence.py a configured mesh object that is
\* missing or not a MESH aborts the run during set-up (RuntimeError, or the
\* camera's KeyError before it): no mesh is written and no frame rendered.
\* Multi-physics/run.py catches the RuntimeError for each soft body, rigid
\* body and cloth entry: the entry is left out of the mapping, its object is
\* never updated, and the error never ends the run
C7_MissingMesh ==
    /\ [](script # "Multi-physics" /\ (\E n \in NamedObjects : NotAMesh(n)) =>
            /\ pc \in {"start", "aborted"}
            /\ renders = << >>
            /\ co = InitCo(scene)
            /\ pc = "aborted" =>
                 \/ err.type = "RuntimeError" /\ err.obj \in NamedObjects /\ NotAMesh(err.obj)
                 \/ err = [type |-> "KeyError", obj |-> "Camera"] /\ scene["Camera"] = Absent)
    /\ [](script = "Multi-physics" =>
            /\ err.type # "RuntimeError"
            /\ \A n \in MappedNames : ~NotAMesh(n)
            /\ \A i \in 1..Len(attempts) : ~NotAMesh(attempts[i].obj)
            /\ pc \in {"loop", "done"} =>
                 \A n \in NamedObjects : ~NotAMesh(n) => n \in MappedNames)
    /\ [][(script = "Multi-physics" /\ pc = "start" /\ pc' = "aborted") =>
            err'.type = "FileNotFoundError"]_vars

\* Multi-physics rendered a frame although a manifest entry has no mesh
C7_Witness ==
    /\ script = "Multi-physics"
    /\ \E n \in NamedObjects : NotAMesh(n)
    /\ renders # << >>
    /\ MappedNames # {}

\* C8: with mesh_info.json missing, Multi-physics/run.py aborts with
\* FileNotFoundError before any mesh vertex buffer is written, before the
\* camera is changed and before any render
C8_NoManifest ==
    (script = "Multi-physics" /\ ~manifest.present) =>
        /\ pc \in {"start", "aborted"}
        /\ pc = "aborted" => err = [type |-> "FileNotFoundError", obj |-> "mesh_info.json"]
        /\ co = InitCo(scene)
        /\ camera = "unset"
        /\ renders = << >>

\* the run aborted on the missing manifest although frame files were there
C8_Witness ==
    /\ script = "Multi-physics"
    /\ ~manifest.present
    /\ pc = "aborted"
    /\ frameFiles # {}

\* Hamilton product of quaternions (w, x, y, z)
QMul(a, b) ==
    << a[1] * b[1] - a[2] * b[2] - a[3] * b[3] - a[4] * b[4],
       a[1] * b[2] + a[2] * b[1] + a[3] * b[4] - a[4] * b[3],
       a[1] * b[3] - a[2] * b[4] + a[3] * b[1] + a[4] * b[2],
       a[1] * b[4] + a[2] * b[3] - a[3] * b[2] + a[4] * b[1] >>

\* vector part of q (0,v) q*: for q in units of 1/sqrt(2) this is twice the
\* vector v rotated by the unit quaternion
TwiceRotated(q, v) ==
    LET r == QMul(QMul(q, <<0, v[1], v[2], v[3]>>), <<q[1], 0 - q[2], 0 - q[3], 0 - q[4]>>)
    IN  <<r[2], r[3], r[4]>>

\* the rigid_body_meshes entry of an object
RigidEntry(name) ==
    CHOOSE rb \in Range(rigid_body_meshes) : rb.name = name

\* C9: every vertex written by the rigid-body update is
\* (local vertex rotated by R(q) + position) * scale, with
\* q = (w,x,y,z) = (pose[6], pose[3], pose[4], pose[5]) and
\* position = pose[0..2] of the body's row of the body_q file used
C9_RigidTransform ==
    \A i \in 1..Len(attempts) :
        (attempts[i].kind = "rigid" /\ attempts[i].ok) =>
            LET a     == attempts[i]
                pose  == BodyPose(a.src, RigidEntry(a.obj).body_idx)
                q     == <<pose[7], pose[4], pose[5], pose[6]>>
                local == LocalVerts(sim).rows
            IN  /\ Len(co[a.obj]) = Len(local)
                /\ \A v \in 1..Len(local) : \A k \in 1..3 :
                     2 * co[a.obj][v][k]
                        = (TwiceRotated(q, local[v])[k] + 2 * pose[k]) * args.scale

\* a rigid mesh was rewritten from a pose that is a quarter turn, at scale 2
C9_Witness ==
    /\ args.scale = 2
    /\ \E i \in 1..Len(attempts) :
         /\ attempts[i].kind = "rigid"
         /\ attempts[i].ok
         /\ BodyPose(attempts[i].src, RigidEntry(attempts[i].obj).body_idx)[7] = 1
         /\ attempts[i].src >= 1

\* the mapping entry (soft body or cloth) of an object
SliceEntry(name) ==
    IF cloth_mesh # NoClothMesh /\ cloth_mesh.name = name THEN cloth_mesh
    ELSE CHOOSE m \in Range(soft_body_meshes) : m.name = name

\* rows [lo, lo+n) of the scaled particle buffer of timestep t
ScaledRows(t, lo, n) == [i \in 1..n |-> VecScale(ParticleRow(t, lo + i - 1), args.scale)]

\* C10 as stated: a soft-body or cloth mesh receives exactly rows
\* [particle_start, particle_start + num_vertices) of the frame's scaled
\* buffer, and a buffer with fewer rows than that makes the update fail
C10_AsStated ==
    \A i \in 1..Len(attempts) :
        attempts[i].kind \in {"soft", "cloth"} =>
            LET a == attempts[i]
                m == SliceEntry(a.obj)
            IN  /\ FrameShape(sim, a.src).n < m.particle_start + m.num_vertices => ~a.ok
                /\ a.ok => co[a.obj] = ScaledRows(a.src, m.particle_start, m.num_vertices)

\* C10 amended: the update is handed the contiguous rows
\* [particle_start, min(particle_start + num_vertices, rows of the buffer)) of
\* the frame's scaled buffer, in buffer order, and is applied exactly when
\* that slice is (n,3) with n the vertex count of the mesh.  With a long
\* enough buffer an applied slice is the full [particle_start,
\* particle_start + num_vertices); a shorter buffer is rejected unless the
\* truncated slice happens to have as many rows as the mesh has vertices
C10_SliceUpdate ==
    \A i \in 1..Len(attempts) :
        attempts[i].kind \in {"soft", "cloth"} =>
            LET a    == attempts[i]
                m    == SliceEntry(a.obj)
                sh   == FrameShape(sim, a.src)
                stop == Min(m.particle_start + m.num_vertices, sh.n)
                n    == IF stop > m.particle_start THEN stop - m.particle_start ELSE 0
            IN  /\ a.n = n
                /\ a.ok <=> (sh.ndim = 2 /\ sh.cols = 3 /\ n = scene[a.obj].nverts)
                /\ a.ok => co[a.obj] = ScaledRows(a.src, m.particle_start, n)
                /\ (a.ok /\ sh.n >= m.particle_start + m.num_vertices) => n = m.num_vertices

\* the cloth received its full slice, which does not start at row 0
C10_Witness ==
    \E i \in 1..Len(attempts) :
        /\ attempts[i].kind = "cloth"
        /\ attempts[i].ok
        /\ cloth_mesh.particle_start > 0
        /\ attempts[i].n = cloth_mesh.num_vertices
        /\ attempts[i].src >= 1

\* C11 as stated: in the index-based polling loops the files rendered during
\* one run are rendered in strictly increasing timestep order, none twice,
\* whatever the order in which the producer adds frame files
C11_AsStated ==
    script \in IndexScripts =>
        \A i \in 1..Len(renders) : \A j \in 1..Len(renders) :
            i < j => renders[i] < renders[j]

\* C12 as stated: every sequence-rendering script accepts all six job
\* parameters on its command line (the value given becomes the job's setting)
C12_AsStated ==
    (pc # "start" /\ "inFolder" \in DOMAIN argv) =>
        /\ pc = "parsed"
        /\ \A o \in DOMAIN argv : o \in DOMAIN args /\ args[o] = argv[o]

\* C12 amended: Multi-physics/run.py and dropingBoxes/render_sequence.py
\* accept all six parameters.  bullet/run_bullet_sim.py and unroll/run.py
\* accept the input directory, output directory, device index, frame count
\* and stride but have no start offset: --startFrame ends the run with
\* argparse's error.  Twist_release/run.py reads no command line: its
\* settings are module constants whatever the command line holds
C12_CommandLine ==
    /\ (pc = "parsed" /\ script \in {"Multi-physics", "dropingBoxes"}) =>
          \A o \in DOMAIN argv : o \in DOMAIN args /\ args[o] = argv[o]
    /\ (pc # "start" /\ script \in {"Multi-physics", "dropingBoxes"}) =>
          (pc = "parsed" <=> "inFolder" \in DOMAIN argv)
    /\ (pc # "start" /\ script \in {"bullet", "unroll"} /\ "startFrame" \in DOMAIN argv) =>
          pc = "aborted" /\ err.type = "SystemExit"
    /\ (pc # "start" /\ script = "bullet" /\ "startFrame" \notin DOMAIN argv) =>
          /\ pc = "parsed"
          /\ \A o \in DOMAIN argv : o \in DOMAIN args /\ args[o] = argv[o]
    /\ (pc # "start" /\ script = "unroll" /\ "startFrame" \notin DOMAIN argv) =>
          /\ pc = "parsed" <=> "inFolder" \in DOMAIN argv
          /\ pc = "parsed" => \A o \in DOMAIN argv : o \in DOMAIN args /\ args[o] = argv[o]
    /\ (pc # "start" /\ script = "Twist_release") =>
          /\ pc = "parsed"
          /\ args = TwistSettings
          /\ DOMAIN args \cap {"gpu", "startFrame"} = {}

\* bullet/run_bullet_sim.py was given a start offset and stopped
C12_Witness ==
    /\ script = "bullet"
    /\ DOMAIN argv = JobOptions
    /\ pc = "aborted"
    /\ err = [type |-> "SystemExit", obj |-> "startFrame"]

\* C13 as stated: whenever Multi-physics/run.py renders the frame file at
\* index fileId with at least one rigid body mapped, every mapped rigid-body
\* mesh was rewritten in that iteration from the body_q file of that same
\* timestep, for any interleaving of producer writes and rescans
C13_AsStated ==
    [][(script = "Multi-physics" /\ renders' # renders /\ rigid_body_meshes # << >>) =>
          \A rb \in Range(rigid_body_meshes) :
              \E i \in 1..Len(attempts') :
                  /\ attempts'[i].obj = rb.name
                  /\ attempts'[i].kind = "rigid"
                  /\ attempts'[i].ok
                  /\ attempts'[i].src = renders'[Len(renders')]]_vars

\* C14 as stated: batchedRendering terminates for every numFrames >= 0 and
\* every content of the input folder when waitForNewFrames is False
C14_AsStated ==
    (script = "BWrapper" /\ ~args.waitForNewFrames) => <>(pc \in {"done", "aborted"})

\* the OPTIX device that C15 says is enabled: position gpu_index among the
\* OPTIX devices when 0 <= gpu_index < their number, the first otherwise
C15Chosen ==
    LET gpu_devices == OptixPositions(devices)
    IN  IF 0 <= args.gpu /\ args.gpu < Len(gpu_devices)
        THEN gpu_devices[args.gpu + 1] ELSE gpu_devices[1]

\* C15 as stated: setup_optix never raises; afterwards exactly the chosen
\* OPTIX device is enabled if there is an OPTIX device, and none otherwise
C15_AsStated ==
    (script = "setup_optix" /\ pc # "start") =>
        /\ pc = "done"
        /\ \A i \in 1..Len(devices) :
             devices[i].use <=> (OptixPositions(devices) # << >> /\ i = C15Chosen)

\* particle_start + num_vertices of every soft body listed in the manifest
C16Ends == {manifest.soft_bodies[i].particle_start + manifest.soft_bodies[i].num_vertices :
              i \in 1..Len(manifest.soft_bodies)}

\* C16 as stated: a cloth entry without particle_start is mapped to the slice
\* starting at the maximum of particle_start + num_vertices over every soft
\* body listed in the manifest (0 if none), whatever objects the scene holds
C16_AsStated ==
    (/\ script = "Multi-physics"
     /\ pc \in {"loop", "done"}
     /\ manifest.cloth # NoCloth
     /\ ~manifest.cloth.has_start
     /\ cloth_mesh # NoClothMesh) =>
        /\ \A e \in C16Ends : cloth_mesh.particle_start >= e
        /\ cloth_mesh.particle_start \in C16Ends \cup {0}
        /\ C16Ends # {} => cloth_mesh.particle_start \in C16Ends

\* all six component files of frame number n are on disk
AllSixOnDisk(n) == n \in DOMAIN compFiles /\ compFiles[n] = ComponentSet

\* C17: dropingBoxes/render_sequence.py renders frame number n only when all
\* six component files of n exist and right after all six meshes were
\* rewritten from the files of n; while a component file of the current
\* frame number is missing, frame_num, rendered_count, the meshes and the
\* renders stay as they are, whatever higher frame numbers are on disk
C17_BoxSafety ==
    /\ [][(script = "dropingBoxes" /\ renders' # renders) =>
            /\ AllSixOnDisk(frame_num)
            /\ renders' = Append(renders, Pad6(frame_num))
            /\ Len(attempts') = Len(Components)
            /\ \A i \in 1..Len(Components) :
                 /\ attempts'[i].obj = Components[i]
                 /\ attempts'[i].src = frame_num
                 /\ attempts'[i].ok
                 /\ co'[Components[i]] = BoxArray(sim, Components[i], frame_num).rows]_vars
    /\ [][(script = "dropingBoxes" /\ pc = "loop" /\ ~AllSixOnDisk(frame_num)) =>
            /\ frame_num' = frame_num
            /\ rendered_count' = rendered_count
            /\ co' = co
            /\ renders' = renders]_vars

\* the loop has rendered, has waited, and is held at a frame number with a
\* file missing while a higher frame number is complete on disk
C17_Witness ==
    /\ script = "dropingBoxes"
    /\ pc = "loop"
    /\ renders # << >>
    /\ sleeps >= 1
    /\ rendered_count < args.numFrames
    /\ frame_num \in DOMAIN compFiles
    /\ ~AllSixOnDisk(frame_num)
    /\ compFiles[frame_num] # {}
    /\ \E f \in DOMAIN compFiles : f > frame_num /\ AllSixOnDisk(f)

\* C18: load_frame returns True only if the target mesh's vertex buffer was
\* overwritten with the contents of frame_<frame_num:06d>.npy; when the file
\* is missing, the mesh object is missing or the vertex counts differ it
\* returns False without raising and leaves every vertex buffer unchanged
C18_LoadFrame ==
    (script = "load_frame" /\ pc # "start") =>
        /\ returned = "True" =>
             /\ frame_num \in frameFiles
             /\ MESH_NAME \in DOMAIN co
             /\ co[MESH_NAME] = FrameArray(sim, frame_num).rows
             /\ Len(co[MESH_NAME]) = scene[MESH_NAME].nverts
             /\ \A i \in 1..Len(co[MESH_NAME]) : Len(co[MESH_NAME][i]) = 3
             /\ \A m \in DOMAIN co \ {MESH_NAME} : co[m] = InitCo(scene)[m]
        /\ returned # "True" => co = InitCo(scene)
        /\ (\/ frame_num \notin frameFiles
            \/ scene[MESH_NAME] = Absent
            \/ /\ scene[MESH_NAME].type = "MESH"
               /\ FrameShape(sim, frame_num).n # scene[MESH_NAME].nverts) =>
             /\ returned = "False"
             /\ pc = "done"
             /\ err = NoErr
             /\ co = InitCo(scene)

\* load_frame returned True for a frame other than the first
C18_Witness ==
    /\ script = "load_frame"
    /\ returned = "True"
    /\ frame_num >= 1
    /\ co[MESH_NAME] # InitCo(scene)[MESH_NAME]

\* both visibility flags of an object are set / are clear
IsHidden(n) == hide.flags[n].hide_render /\ hide.flags[n].hide_viewport

IsShown(n) == ~hide.flags[n].hide_render /\ ~hide.flags[n].hide_viewport

ValidModes == {"transparent", "crosssection"}

\* C19 as stated: when the rifled barrel and the barrel section both exist
\* and the last call used a valid mode, the barrel is hidden iff every
\* section object is shown (transparent: barrel shown, section hidden;
\* crosssection: the reverse), hide_render = hide_viewport on each object
C19_AsStated ==
    (script = "load_frame" /\ hide.barrel /\ hide.section.exists /\ mode \in ValidModes) =>
        /\ IsHidden("rifled_barrel") <=> (\A o \in hide.section.objects : IsShown(o))
        /\ IsHidden("rifled_barrel") <=> mode = "crosssection"
        /\ \A n \in DOMAIN hide.flags : hide.flags[n].hide_render = hide.flags[n].hide_viewport

\* C19 amended: after a call with mode 'transparent' or 'crosssection'
\* every object of the barrel section has hide_render = hide_viewport =
\* (mode is transparent), and the rifled barrel, unless it is itself one of
\* the section's objects, has hide_render = hide_viewport = (mode is
\* crosssection); so the barrel is hidden iff every section object is shown
\* provided the section holds at least one object and not the barrel.  A
\* call with any other mode string changes no visibility flag
C19_BarrelMode ==
    /\ [](script = "load_frame" /\ mode \in ValidModes =>
            /\ \A o \in hide.section.objects :
                 hide.flags[o] = [hide_render |-> mode = "transparent",
                                  hide_viewport |-> mode = "transparent"]
            /\ (hide.barrel /\ "rifled_barrel" \notin hide.section.objects) =>
                 hide.flags["rifled_barrel"] = [hide_render |-> mode = "crosssection",
                                                hide_viewport |-> mode = "crosssection"]
            /\ (/\ hide.barrel
                /\ hide.section.objects # {}
                /\ "rifled_barrel" \notin hide.section.objects) =>
                 (IsHidden("rifled_barrel") <=> \A o \in hide.section.objects : IsShown(o)))
    /\ [][(script = "load_frame" /\ mode' \notin ValidModes) => hide' = hide]_vars

\* cross-section after transparent: the barrel went from shown to hidden and
\* the two section objects from hidden to shown
C19_Witness ==
    /\ script = "load_frame"
    /\ mode = "crosssection"
    /\ hide.barrel
    /\ hide.section.objects = {"barrel_side_a", "barrel_side_b"}
    /\ IsHidden("rifled_barrel")
    /\ IsShown("barrel_side_a") /\ IsShown("barrel_side_b")
    /\ returned = "True"

\* C20: run_slowmo_orbit.py with S >= 2 source indices and slowdown >= 1: the
\* images rendered so far are always frame_000000, frame_000001, ... with
\* consecutive indices, none missing or repeated, never more than
\* (S - 1) * slowdown of them, and when the loop has finished exactly
\* (S - 1) * slowdown were rendered and output_idx = total_output_frames
C20_SlowmoCount ==
    (script = "slowmo" /\ pc \in {"loop", "done", "aborted"} /\ camera = "Camera"
     /\ Len(SourceIndices(args, npy_files)) >= 2 /\ args.slowdown >= 1) =>
        LET S == Len(SourceIndices(args, npy_files))
        IN  /\ Len(renders) = output_idx
            /\ output_idx <= (S - 1) * args.slowdown
            /\ \A i \in 1..Len(renders) : renders[i].name = Pad6(i - 1)
            /\ \A i \in 1..Len(renders) : \A j \in 1..Len(renders) :
                 i # j => renders[i].name # renders[j].name
            /\ pc = "done" =>
                 /\ Len(renders) = (S - 1) * args.slowdown
                 /\ output_idx = total_output_frames

\* a finished run over two source frames taken with a stride of two
C20_Witness ==
    /\ script = "slowmo"
    /\ pc = "done"
    /\ args.stride = 2
    /\ args.slowdown = 2
    /\ Len(SourceIndices(args, npy_files)) = 2
    /\ Len(npy_files) >= 3
    /\ Len(renders) = 2

C22_SlowmoIndices ==
    (script = "slowmo" /\ args.startFrame >= 0 /\ args.stride >= 1) =>
        /\ \A k \in 1..Len(source_indices) :
             0 <= source_indices[k] /\ source_indices[k] < Len(npy_files)
        /\ err.type \notin {"IndexError", "ZeroDivisionError"}
        /\ Len(source_indices) < 2 => renders = << >>
        /\ \A i \in 1..Len(renders) :
             /\ 0 <= renders[i].a /\ renders[i].a < Len(npy_files)
             /\ 0 <= renders[i].b /\ renders[i].b < Len(npy_files)

\* a finished run whose endFrame lay past the listing: the last source frame
\* is the last file, and images were rendered
C22_Witness ==
    /\ script = "slowmo"
    /\ pc = "done"
    /\ args.endFrame >= Len(npy_files)
    /\ renders # << >>
    /\ Len(source_indices) >= 2
    /\ source_indices[Len(source_indices)] = Len(npy_files) - 1

\* C23 as stated: in the index-based loops of Multi-physics/run.py and
\* unroll/run.py, for every integer startFrame, stride and numFrames the
\* parser accepts, each access npy_files[fileId] has 0 <= fileId <
\* len(npy_files), and fileId is strictly larger after a rendered frame
C23_AsStated ==
    [][(pc = "loop" /\ (MPProcess \/ SingleProcess)) =>
          /\ 0 <= fileId
          /\ fileId < Len(npy_files)
          /\ renders' # renders => fileId' > fileId]_vars

====
